---- MODULE Spec2Model ----
(***************************************************************************)
(* A model of the sparkx-admin single-page application: the software-      *)
(* template page with its upload-and-register workflow, the page-local     *)
(* error decoders of the four pages, and the edit forms of the agent and   *)
(* LLM pages.                                                              *)
(*                                                                         *)
(* Text is a sequence of one-character strings; a literal of the source    *)
(* that is never taken apart is one token (<<"Request failed">>).  An      *)
(* optional value (a JSON field that may be missing, a number that may be  *)
(* NaN or undefined) is <<>> when absent and <<v>> when present.           *)
(***************************************************************************)
EXTENDS Integers, Sequences, FiniteSets, TLC

VARIABLES
  \* ---- SoftwareTemplatesPage component state
  formData,            \* [name, description, archiveFileId], all text
  selectedFile,        \* None or Some(file)
  uploadMode,          \* "new" | "existing"
  isUploading,
  uploadProgress,
  message,             \* None or Some([type, text]): the banner
  isCreateModalOpen,
  isEditModalOpen,
  editingTemplate,     \* None or Some(template)
  templates,           \* the displayed list
  selectedTemplateId,  \* None or Some(id)
  loading,
  versionsFileId,      \* None, or Some(f): the versions shown are those of file f
  versionsLoading,
  versions,            \* the displayed versions
  versionsPageInfo,    \* [page, totalPages]: total and pageSize as the pages they give
  \* ---- promises in flight
  invocations,         \* one record per call of handleUploadAndCreate/-Update
  listRequests,        \* loadTemplates calls awaiting listSoftwareTemplates
  versionRequests,     \* loadVersionsForFile calls awaiting listFileVersions
  \* ---- one failing backend call of any page (error decoding)
  apiCall,             \* None or Some([page, api, body])
  banner,              \* page -> None or Some(text): each page's banner text
  \* ---- the edit forms of the agent and LLM pages
  editKind,            \* "none" | "agent" | "provider" | "model"
  editingRecord,       \* None or Some(record loaded into the form)
  editForm,            \* the form's fields
  updateRequest,       \* None or Some(payload of the last update request)
  \* ---- the two token stores and the calls that read them
  localToken,          \* localStorage key sparkx_admin_token: None or Some(token)
  sessionToken,        \* sessionStorage key sparkx_admin_token: None or Some(token)
  handlerPage,         \* None, or Some(page): a handler of that page is under way
  authCall,            \* None or Some(the last backend call issued)
  localAdmin,          \* localStorage keys sparkx_admin_id, sparkx_admin_role: None or Some([id, role])
  sessionAdmin,        \* the same keys of sessionStorage
  route,               \* the page the router shows
  effectsRun,          \* the effects of that page's first render have run
  \* ---- the lists of the agent and LLM pages and the calls they await
  activeTab,           \* the tab of the LLM page: "providers" | "models" | "usage"
  records,             \* agents, providers, models, bindings: kind -> the displayed list
  selectedIds,         \* selectedAgentId, selectedProviderId, selectedModelId: None or Some(id)
  bindingsLoading,
  resourceCalls,       \* the list, bindings and delete calls awaiting their answer
  backend,             \* kind -> the ids of the records the backend holds
  confirmed            \* None, or Some([kind, confirmed]): the last answer to window.confirm

pageVars == <<formData, selectedFile, uploadMode, isUploading, uploadProgress,
              message, isCreateModalOpen, isEditModalOpen, editingTemplate,
              templates, selectedTemplateId, loading, versionsFileId,
              versionsLoading, versions, versionsPageInfo, invocations,
              listRequests, versionRequests>>
errVars == <<apiCall, banner>>
editVars == <<editKind, editingRecord, editForm, updateRequest>>
authVars == <<localToken, sessionToken, handlerPage, authCall,
              localAdmin, sessionAdmin, route, effectsRun>>
resourceVars == <<activeTab, records, selectedIds, bindingsLoading, resourceCalls,
                  backend, confirmed>>
vars == <<pageVars, errVars, editVars, authVars, resourceVars>>

-----------------------------------------------------------------------------
(* Optional values.                                                        *)
None == <<>>
Some(v) == <<v>>
IsSome(o) == o /= <<>>
The(o) == o[1]

-----------------------------------------------------------------------------
(* Text: String.prototype.trim and the truthiness tests made on text.      *)
Space == " "

RECURSIVE TrimStart(_)
TrimStart(s) ==
  IF s /= <<>> /\ Head(s) = Space THEN TrimStart(Tail(s)) ELSE s

RECURSIVE TrimEnd(_)
TrimEnd(s) ==
  IF s /= <<>> /\ s[Len(s)] = Space THEN TrimEnd(SubSeq(s, 1, Len(s) - 1)) ELSE s

\* s.trim()
Trim(s) == TrimEnd(TrimStart(s))

\* !s.trim()
IsBlank(s) == Trim(s) = <<>>

-----------------------------------------------------------------------------
(* Response bodies.  A body is text; the JSON bodies are the texts that     *)
(* serialise an object with an optional `message` and an optional `msg`     *)
(* member, possibly surrounded by whitespace.                               *)

\* A member of a JSON object: missing, a string, or a value of another type.
Absent == [t |-> "absent", v |-> <<>>]
OtherType == [t |-> "other", v |-> <<>>]
Str(s) == [t |-> "string", v |-> s]

MessageTexts == {<<>>, <<Space>>, <<"m">>, <<"m", Space>>}
MsgTexts == {<<>>, <<Space>>, <<"s">>, <<Space, "s">>}

JsonObjects ==
  [message : {Absent, OtherType} \cup {Str(s) : s \in MessageTexts},
   msg : {Absent, OtherType} \cup {Str(s) : s \in MsgTexts}]

Member(key, f) ==
  IF f.t = "absent" THEN <<>>
  ELSE <<key>> \o (IF f.t = "string" THEN <<"\"">> \o f.v \o <<"\"">> ELSE <<"7">>)

Serialize(o) ==
  <<"{">> \o Member("message:", o.message) \o Member("msg:", o.msg) \o <<"}">>

\* Bodies that are not a JSON object: empty, whitespace, plain text, and the
\* JSON texts null and 7.
PlainBodies ==
  {<<>>, <<Space>>, <<"x">>, <<Space, "x", Space>>, <<"null">>, <<"7">>}

Bodies ==
  PlainBodies \cup {Serialize(o) : o \in JsonObjects}
              \cup {<<Space>> \o Serialize(o) \o <<Space>> : o \in JsonObjects}

\* JSON.parse(text): the parsed value, or the fact that it throws.
JsonParse(text) ==
  LET t == Trim(text) IN
  IF t = <<"null">> THEN [kind |-> "null", obj |-> [message |-> Absent, msg |-> Absent]]
  ELSE IF t = <<"7">> THEN [kind |-> "scalar", obj |-> [message |-> Absent, msg |-> Absent]]
  ELSE IF \E o \in JsonObjects : Serialize(o) = t
       THEN [kind |-> "object", obj |-> CHOOSE o \in JsonObjects : Serialize(o) = t]
       ELSE [kind |-> "throws", obj |-> [message |-> Absent, msg |-> Absent]]

RequestFailed == <<"Request failed">>

\* typeof f === 'string' && f.trim()
IsNonBlankString(f) == f.t = "string" /\ ~IsBlank(f.v)

\* The statements of the try block run only when JSON.parse returned and the
\* member reads did not throw (reading a member of null throws a TypeError).
TryBlockRuns(p) == p.kind \in {"object", "scalar"}

\* A mutant of the decoders: the `msg` member is read before `message`.
MsgBeforeMessage(text) ==
  IF text = <<>> THEN RequestFailed
  ELSE LET p == JsonParse(text) IN
       IF TryBlockRuns(p) /\ IsNonBlankString(p.obj.msg) THEN p.obj.msg.v
       ELSE IF TryBlockRuns(p) /\ IsNonBlankString(p.obj.message) THEN p.obj.message.v
       ELSE IF Trim(text) = <<>> THEN RequestFailed ELSE Trim(text)

\* A mutant of the decoders: the empty body is not told from other text.
NoEmptyBodyCase(text) ==
  LET p == JsonParse(text) IN
  IF TryBlockRuns(p) /\ IsNonBlankString(p.obj.message) THEN p.obj.message.v
  ELSE IF TryBlockRuns(p) /\ IsNonBlankString(p.obj.msg) THEN p.obj.msg.v
  ELSE Trim(text)

\* SoftwareTemplatesPage.tsx parseApiErrorMessage, applied to response.text()
parseApiErrorMessage_Templates(text) ==
  IF text = <<>> THEN RequestFailed
  ELSE LET p == JsonParse(text) IN
       IF TryBlockRuns(p) /\ IsNonBlankString(p.obj.message) THEN p.obj.message.v
       ELSE IF TryBlockRuns(p) /\ IsNonBlankString(p.obj.msg) THEN p.obj.msg.v
       ELSE LET normalized == Trim(text) IN
            IF normalized = <<>> THEN RequestFailed ELSE normalized

\* LoginPage.tsx parseApiErrorMessage
parseApiErrorMessage_Login(text) ==
  IF text = <<>> THEN RequestFailed
  ELSE LET p == JsonParse(text) IN
       IF TryBlockRuns(p) /\ IsNonBlankString(p.obj.message) THEN p.obj.message.v
       ELSE IF TryBlockRuns(p) /\ IsNonBlankString(p.obj.msg) THEN p.obj.msg.v
       ELSE LET normalized == Trim(text) IN
            IF normalized = <<>> THEN RequestFailed ELSE normalized

\* AgentManagementPage.tsx parseApiErrorMessage
parseApiErrorMessage_Agent(text) ==
  IF text = <<>> THEN RequestFailed
  ELSE LET p == JsonParse(text) IN
       IF TryBlockRuns(p) /\ IsNonBlankString(p.obj.message) THEN p.obj.message.v
       ELSE IF TryBlockRuns(p) /\ IsNonBlankString(p.obj.msg) THEN p.obj.msg.v
       ELSE IF Trim(text) = <<>> THEN RequestFailed ELSE Trim(text)

\* LlmManagementPage.tsx parseApiErrorMessage: both members are tested in
\* turn and each assigns extractedMessage, so `msg` overwrites `message`.
parseApiErrorMessage_Llm(text) ==
  IF text = <<>> THEN RequestFailed
  ELSE LET p == JsonParse(text)
           fromMessage ==
             IF TryBlockRuns(p) /\ IsNonBlankString(p.obj.message)
             THEN Some(p.obj.message.v) ELSE None
           extractedMessage ==
             IF TryBlockRuns(p) /\ IsNonBlankString(p.obj.msg)
             THEN Some(p.obj.msg.v) ELSE fromMessage
       IN IF IsSome(extractedMessage) THEN The(extractedMessage)
          ELSE LET normalized == Trim(text) IN
               IF normalized = <<>> THEN RequestFailed ELSE normalized

Pages == {"login", "templates", "llm", "agents"}

parseApiErrorMessage(page, text) ==
  CASE page = "login" -> parseApiErrorMessage_Login(text)
    [] page = "templates" -> parseApiErrorMessage_Templates(text)
    [] page = "llm" -> parseApiErrorMessage_Llm(text)
    [] page = "agents" -> parseApiErrorMessage_Agent(text)

-----------------------------------------------------------------------------
(* Bounds of the model.                                                    *)

\* File ids the backend hands out at pre-upload are 0..MaxFileId.
MaxFileId == 1
\* Calls of handleUploadAndCreate / handleUploadAndUpdate in one behaviour.
MaxInvocations == 2

-----------------------------------------------------------------------------
(* The software-template page: data.                                       *)

\* What the user types into the name field.
FieldTexts == {<<"b", Space>>}
\* What the user types into the file-id field (an <input type="number">).
FileIdTexts == {<<"2">>, <<"-", "1">>}

\* The files the user can choose.  name is the file name, "." a token of it.
Files == {[name |-> <<"t", ".", "ZIP">>, content |-> "c1", size |-> 1, type |-> <<>>]}

\* The template records of the backend, as listSoftwareTemplates returns them.
ServerTemplates ==
  << [id |-> 1, name |-> <<"a">>, description |-> <<>>, archiveFileId |-> 0],
     [id |-> 2, name |-> <<"b">>, description |-> <<"d">>, archiveFileId |-> 2] >>


\* Bodies of non-2xx responses and messages of thrown errors in the workflow.
ErrorBodies == {Serialize([message |-> Str(<<"m">>), msg |-> Absent])}
ThrownMessages == {<<"Failed to fetch">>}

\* Literal texts of the page (the source's literals are Chinese).
NameRequiredText == <<"template name must not be empty">>
PreUploadFailedPrefix == <<"pre-upload failed: ">>
UploadFailedPrefix == <<"upload failed: ">>
UploadThrewText == <<"an error occurred while uploading the file">>
CreatedText == <<"template created">>
UpdatedText == <<"template updated">>

ErrorMessage(text) == Some([type |-> "error", text |-> text])
SuccessMessage(text) == Some([type |-> "success", text |-> text])

EmptyForm == [name |-> <<>>, description |-> <<>>, archiveFileId |-> <<>>]

-----------------------------------------------------------------------------
(* Pure helpers of SoftwareTemplatesPage.tsx.                              *)

Digits == {"0", "1", "2", "3", "4", "5", "6", "7", "8", "9"}
DigitValue(d) ==
  CASE d = "0" -> 0 [] d = "1" -> 1 [] d = "2" -> 2 [] d = "3" -> 3 [] d = "4" -> 4
    [] d = "5" -> 5 [] d = "6" -> 6 [] d = "7" -> 7 [] d = "8" -> 8 [] d = "9" -> 9

RECURSIVE LeadingDigits(_)
LeadingDigits(s) ==
  IF s /= <<>> /\ Head(s) \in Digits THEN <<Head(s)>> \o LeadingDigits(Tail(s)) ELSE <<>>

RECURSIVE DecimalValue(_)
DecimalValue(ds) ==
  IF ds = <<>> THEN 0 ELSE 10 * DecimalValue(SubSeq(ds, 1, Len(ds) - 1)) + DigitValue(ds[Len(ds)])

\* parseInt(s, 10): None is NaN.
ParseInt(s) ==
  LET t == TrimStart(s)
      negative == t /= <<>> /\ Head(t) = "-"
      unsigned == IF t /= <<>> /\ Head(t) \in {"-", "+"} THEN Tail(t) ELSE t
      ds == LeadingDigits(unsigned)
  IN IF ds = <<>> THEN None
     ELSE Some(IF negative THEN 0 - DecimalValue(ds) ELSE DecimalValue(ds))

\* String(n) for the non-negative ids of the template records.
DigitText(n) ==
  CASE n = 0 -> "0" [] n = 1 -> "1" [] n = 2 -> "2" [] n = 3 -> "3" [] n = 4 -> "4"
    [] n = 5 -> "5" [] n = 6 -> "6" [] n = 7 -> "7" [] n = 8 -> "8" [] n = 9 -> "9"

RECURSIVE NumberText(_)
NumberText(n) ==
  IF n < 10 THEN <<DigitText(n)>> ELSE NumberText(n \div 10) \o <<DigitText(n % 10)>>

ToLowerCase(c) ==
  CASE c = "ZIP" -> "zip" [] c = "PNG" -> "png" [] c = "Mp4" -> "mp4"
    [] c = "WAV" -> "wav" [] c = "Ts" -> "ts" [] c = "XYZ" -> "xyz" [] OTHER -> c

\* The positions of "." in a file name.
DotPositions(filename) == {i \in 1..Len(filename) : filename[i] = "."}
LastDot(filename) ==
  IF DotPositions(filename) = {} THEN 0
  ELSE CHOOSE i \in DotPositions(filename) : \A j \in DotPositions(filename) : j <= i

\* A mutant: the extension as it is written in the name.
ExtensionAsWritten(filename) ==
  IF DotPositions(filename) = {} \/ LastDot(filename) = Len(filename) THEN ""
  ELSE filename[Len(filename)]

\* getFileExtension: the lower-cased text after the last ".", "" without a ".".
\* An extension is one token of the name.
getFileExtension(filename) ==
  IF DotPositions(filename) = {} \/ LastDot(filename) = Len(filename) THEN ""
  ELSE ToLowerCase(filename[Len(filename)])

imageExts == {"png", "jpg", "jpeg", "gif", "bmp", "webp", "svg"}
videoExts == {"mp4", "avi", "mov", "wmv", "flv", "mkv"}
audioExts == {"mp3", "wav", "ogg", "flac", "aac"}
textExts == {"txt", "md", "json", "xml", "html", "css", "js", "ts", "go", "py", "java", "c", "cpp", "h"}
archiveExts == {"zip", "rar", "7z", "tar", "gz", "bz2"}

getFileCategory(ext) ==
  IF ext \in imageExts THEN "image"
  ELSE IF ext \in videoExts THEN "video"
  ELSE IF ext \in audioExts THEN "audio"
  ELSE IF ext \in textExts THEN "text"
  ELSE IF ext \in archiveExts THEN "archive"
  ELSE "binary"

\* calculateFileHash: the SHA-256 digest of the file's bytes, in hex.
calculateFileHash(file) == <<"sha256(", file.content, ")">>

\* The input of preUploadFile built by the two handlers.
PreUploadInput(file, fileHash) ==
  [projectId |-> 0,
   name |-> file.name,
   fileCategory |-> getFileCategory(getFileExtension(file.name)),
   fileFormat |-> getFileExtension(file.name),
   sizeBytes |-> file.size,
   hash |-> fileHash,
   contentType |-> IF file.type = <<>> THEN None ELSE Some(file.type)]

-----------------------------------------------------------------------------
(* Responses and the API wrappers.  A response is a 2xx response carrying   *)
(* data, a non-2xx response carrying a body, or a fetch that throws.       *)

OkResponse(data) == [kind |-> "ok", data |-> data, body |-> <<>>, message |-> <<>>]
HttpError(body) == [kind |-> "http", data |-> <<>>, body |-> body, message |-> <<>>]
Thrown(msg) == [kind |-> "throw", data |-> <<>>, body |-> <<>>, message |-> msg]

FailureResponses ==
  {HttpError(b) : b \in ErrorBodies} \cup {Thrown(m) : m \in ThrownMessages}

\* The pre-signed URL and the content type the backend issues for file id f.
UploadUrlOf(f) == <<"https://oss/">> \o NumberText(f)
ContentTypeOf(f) == <<"application/zip;slot=">> \o NumberText(f)

\* The data of a successful pre-upload (PreUploadResp).
PreUploadData ==
  {[uploadUrl |-> UploadUrlOf(f), fileId |-> f, contentType |-> ContentTypeOf(f)] :
     f \in 0..MaxFileId}

\* The shape every wrapper returns: {ok: true, data} or {ok: false, message}.
\* The page decodes a non-2xx body with its own parseApiErrorMessage; a
\* thrown Error gives its message.  noData stands for the missing data member.
ApiResult(page, response, noData) ==
  IF response.kind = "ok" THEN [ok |-> TRUE, data |-> response.data, message |-> <<>>]
  ELSE IF response.kind = "http"
       THEN [ok |-> FALSE, data |-> noData,
             message |-> parseApiErrorMessage(page, response.body)]
       ELSE [ok |-> FALSE, data |-> noData, message |-> response.message]

NoPreUploadData == [uploadUrl |-> <<>>, fileId |-> 0, contentType |-> <<>>]

preUploadFile(response) == ApiResult("templates", response, NoPreUploadData)
listSoftwareTemplates(response) == ApiResult("templates", response, <<>>)
listFileVersions(response) == ApiResult("templates", response, <<>>)
createSoftwareTemplate(response) == ApiResult("templates", response, <<>>)
updateSoftwareTemplate(response) == ApiResult("templates", response, <<>>)

\* Responses of the object storage to the PUT: body is "status statusText".
PutResponses ==
  {OkResponse(<<>>), HttpError(<<"403 Forbidden">>)} \cup {Thrown(m) : m \in ThrownMessages}

\* uploadFileToOSS: a non-2xx status gives its own prefixed message.
uploadFileToOSS(response) ==
  IF response.kind = "ok" THEN [ok |-> TRUE, data |-> <<>>, message |-> <<>>]
  ELSE IF response.kind = "http"
       THEN [ok |-> FALSE, data |-> <<>>, message |-> UploadFailedPrefix \o response.body]
       ELSE [ok |-> FALSE, data |-> <<>>, message |-> response.message]

-----------------------------------------------------------------------------
(* The decisions of handleUploadAndCreate and handleUploadAndUpdate.       *)

\* The mode in which the handler uploads the selected file first.
UploadsNewFile(mode, file) == mode = "new" /\ IsSome(file)

\* A mutant: the form's file id is used whatever the mode.
ExistingIdInAnyMode(mode, form) ==
  IF ~IsBlank(form.archiveFileId)
  THEN LET fileId == ParseInt(Trim(form.archiveFileId)) IN
       IF IsSome(fileId) /\ The(fileId) > 0 THEN fileId ELSE None
  ELSE None

\* The file id typed in "existing" mode: a positive integer or nothing.
ExistingArchiveFileId(mode, form) ==
  IF mode = "existing" /\ ~IsBlank(form.archiveFileId)
  THEN LET fileId == ParseInt(Trim(form.archiveFileId)) IN
       IF IsSome(fileId) /\ The(fileId) > 0 THEN fileId ELSE None
  ELSE None

\* A mutant: a failed pre-upload is not noticed.
PreUploadNeverFails(result) == FALSE

\* if (!preUploadResult.ok) { ... return; }
PreUploadFailed(result) == ~result.ok

\* A mutant: a failed PUT is not noticed.
UploadNeverFails(result) == FALSE

\* if (!uploadResult.ok) { ... return; }
UploadFailed(result) == ~result.ok

\* A mutant: the uploaded file's id is not kept.
ArchiveFileIdForgotten(data) == None

\* archiveFileId = preUploadResult.data.fileId
ArchiveFileIdAfterUpload(data) == Some(data.fileId)

\* if (archiveFileId) input.archiveFileId = archiveFileId: undefined and 0
\* are falsy.
TruthyFileId(archiveFileId) ==
  IF IsSome(archiveFileId) /\ The(archiveFileId) /= 0 THEN archiveFileId ELSE None

\* if (formData.x.trim()) input.x = formData.x.trim()
TrimmedIfNotBlank(text) == IF IsBlank(text) THEN None ELSE Some(Trim(text))

\* The body of the create request.
CreateInput(form, archiveFileId) ==
  [name |-> Some(Trim(form.name)),
   description |-> TrimmedIfNotBlank(form.description),
   archiveFileId |-> TruthyFileId(archiveFileId)]

\* The body of the update request.
UpdateInput(form, archiveFileId) ==
  [name |-> TrimmedIfNotBlank(form.name),
   description |-> TrimmedIfNotBlank(form.description),
   archiveFileId |-> TruthyFileId(archiveFileId)]

Event(op, arg) == [op |-> op, arg |-> arg]

\* The request that registers the template: createSoftwareTemplate(input)
\* or updateSoftwareTemplate(editingTemplate.id, input).
RegisterRequest(inv, archiveFileId) ==
  IF inv.handler = "create"
  THEN Event("create", [id |-> 0, input |-> CreateInput(inv.formData, archiveFileId)])
  ELSE Event("update", [id |-> The(inv.editingTemplate).id,
                        input |-> UpdateInput(inv.formData, archiveFileId)])

\* A call of a handler that passed validation: the values its closure holds
\* (the state of the render in which the button was clicked), its locals,
\* the requests it has issued so far and, once the list reload it ends with
\* has been answered, the selection that reload made.
NewInvocation(handler) ==
  [handler |-> handler,
   formData |-> formData,
   selectedFile |-> selectedFile,
   uploadMode |-> uploadMode,
   editingTemplate |-> editingTemplate,
   selectedTemplateId |-> selectedTemplateId,
   pc |-> "start",
   fileHash |-> None,
   preUploadResult |-> None,
   uploadResult |-> None,
   archiveFileId |-> None,
   result |-> None,
   reloaded |-> None,
   log |-> <<>>]

-----------------------------------------------------------------------------
(* The software-template page: actions.                                    *)

formVars == <<formData, selectedFile, uploadMode>>
modalVars == <<isCreateModalOpen, isEditModalOpen, editingTemplate>>
listVars == <<templates, selectedTemplateId, loading, versionsFileId,
              versionsLoading, versions, versionsPageInfo, listRequests,
              versionRequests>>
otherVars == <<errVars, editVars, authVars, resourceVars>>

ModalOpen == isCreateModalOpen \/ (isEditModalOpen /\ IsSome(editingTemplate))

\* selectedTemplate of the render
SelectedTemplate ==
  IF IsSome(selectedTemplateId)
     /\ \E k \in 1..Len(templates) : templates[k].id = The(selectedTemplateId)
  THEN Some(templates[CHOOSE k \in 1..Len(templates) :
                        templates[k].id = The(selectedTemplateId)])
  ELSE None

\* disabled attribute of the create modal's submit button
CreateSubmitDisabled == isUploading \/ IsBlank(formData.name)
\* disabled attribute of the edit modal's submit button
EditSubmitDisabled == isUploading

\* resetForm()
ResetForm ==
  /\ formData' = EmptyForm
  /\ selectedFile' = None
  /\ uploadProgress' = 0
  /\ uploadMode' = "new"

\* The page's buttons lie under the modal overlay while a modal is open.
OpenCreateModal ==
  /\ ~ModalOpen
  /\ ResetForm
  /\ isCreateModalOpen' = TRUE
  /\ UNCHANGED <<isUploading, message, isEditModalOpen, editingTemplate,
                 listVars, invocations, otherVars>>

\* A closeCreateModal that would abandon the invocations in flight.
CloseCreateModalCancels ==
  /\ isCreateModalOpen
  /\ isCreateModalOpen' = FALSE
  /\ ResetForm
  /\ invocations' = [i \in 1..Len(invocations) |->
                      IF invocations[i].pc \in {"done", "failed"} THEN invocations[i]
                      ELSE [invocations[i] EXCEPT !.pc = "cancelled"]]
  /\ UNCHANGED <<isUploading, message, isEditModalOpen, editingTemplate,
                 listVars, otherVars>>

\* The overlay and the close icon call closeCreateModal at any time; the
\* cancel button does too, unless isUploading.
CloseCreateModal ==
  /\ isCreateModalOpen
  /\ isCreateModalOpen' = FALSE
  /\ ResetForm
  /\ UNCHANGED <<isUploading, message, isEditModalOpen, editingTemplate,
                 listVars, invocations, otherVars>>

\* What openEditModal(template) puts in the form.
FormOf(template) ==
  [name |-> template.name,
   description |-> template.description,
   archiveFileId |-> IF template.archiveFileId /= 0
                     THEN NumberText(template.archiveFileId)
                     ELSE <<>>]

\* openEditModal(selectedTemplate), from the detail panel
OpenEditModal ==
  /\ ~ModalOpen
  /\ ~loading
  /\ IsSome(SelectedTemplate)
  /\ LET template == The(SelectedTemplate) IN
     /\ editingTemplate' = Some(template)
     /\ formData' = FormOf(template)
  /\ uploadMode' = "new"
  /\ selectedFile' = None
  /\ uploadProgress' = 0
  /\ isEditModalOpen' = TRUE
  /\ UNCHANGED <<isUploading, message, isCreateModalOpen,
                 listVars, invocations, otherVars>>

CloseEditModal ==
  /\ isEditModalOpen /\ IsSome(editingTemplate)
  /\ isEditModalOpen' = FALSE
  /\ editingTemplate' = None
  /\ ResetForm
  /\ UNCHANGED <<isUploading, message, isCreateModalOpen,
                 listVars, invocations, otherVars>>

\* The text the page's handlers put in the banner when wrapper `api` fails
\* with `msg`: the two upload steps prefix it, every other call shows it as is.
TemplatesFailureText(api, msg) ==
  IF api = "preUploadFile" THEN PreUploadFailedPrefix \o msg
  ELSE IF api = "uploadFileToOSS" THEN UploadFailedPrefix \o msg
  ELSE msg

\* The handler from its first statement to its first await.
StartWorkflow(handler) ==
  LET inv == NewInvocation(handler) IN
  /\ message' = None
  /\ IF UploadsNewFile(uploadMode, selectedFile)
     THEN /\ isUploading' = TRUE
          /\ uploadProgress' = 20
          /\ invocations' = Append(invocations,
               [inv EXCEPT !.pc = "hashing",
                           !.log = <<Event("hash", The(selectedFile))>>])
     ELSE LET archiveFileId == ExistingArchiveFileId(uploadMode, formData) IN
          /\ UNCHANGED isUploading
          /\ uploadProgress' = 90
          /\ invocations' = Append(invocations,
               [inv EXCEPT !.pc = "registering",
                           !.archiveFileId = archiveFileId,
                           !.log = <<RegisterRequest(inv, archiveFileId)>>])
  /\ UNCHANGED <<formVars, modalVars, listVars, otherVars>>

\* A click on the create modal's submit button.
HandleUploadAndCreate ==
  /\ isCreateModalOpen
  /\ ~CreateSubmitDisabled
  /\ Len(invocations) < MaxInvocations
  /\ IF IsBlank(formData.name)
     THEN /\ message' = ErrorMessage(NameRequiredText)
          /\ UNCHANGED <<isUploading, uploadProgress, invocations, formVars,
                         modalVars, listVars, otherVars>>
     ELSE StartWorkflow("create")

\* A click on the edit modal's submit button.
HandleUploadAndUpdate ==
  /\ isEditModalOpen
  /\ ~EditSubmitDisabled
  /\ Len(invocations) < MaxInvocations
  /\ IF ~IsSome(editingTemplate)
     THEN /\ message' = None
          /\ UNCHANGED <<isUploading, uploadProgress, invocations, formVars,
                         modalVars, listVars, otherVars>>
     ELSE StartWorkflow("update")

\* A mutant: a failure that leaves the progress bar where it was.
FailKeepsProgress(inv, text) ==
  /\ message' = ErrorMessage(text)
  /\ isUploading' = FALSE
  /\ UNCHANGED uploadProgress

\* A mutant: a failure that leaves isUploading as it is.
FailKeepsUploading(inv, text) ==
  /\ message' = ErrorMessage(text)
  /\ UNCHANGED isUploading
  /\ uploadProgress' = 0

\* The failure exit of the workflow: the banner, isUploading and the
\* progress bar.
Fail(inv, text) ==
  /\ message' = ErrorMessage(text)
  /\ isUploading' = FALSE
  /\ uploadProgress' = 0

\* await calculateFileHash(selectedFile) settles.
HashSettles(i) ==
  /\ invocations[i].pc = "hashing"
  /\ LET inv == invocations[i]
         file == The(inv.selectedFile)
         fileHash == calculateFileHash(file)
     IN \/ /\ uploadProgress' = 40
           /\ invocations' = [invocations EXCEPT ![i] =
                [inv EXCEPT !.pc = "negotiating",
                            !.fileHash = Some(fileHash),
                            !.log = Append(@, Event("preupload", PreUploadInput(file, fileHash)))]]
           /\ UNCHANGED <<isUploading, message>>
        \/ \* reading or hashing the file throws: the catch block
           /\ Fail(inv, UploadThrewText)
           /\ invocations' = [invocations EXCEPT ![i] = [inv EXCEPT !.pc = "failed"]]
  /\ UNCHANGED <<formVars, modalVars, listVars, otherVars>>

\* A mutant: the PUT declares the file's own MIME type.
PutWithDeclaredType(inv, preUploadResult) ==
  Event("put", [uploadUrl |-> preUploadResult.data.uploadUrl,
                file |-> The(inv.selectedFile),
                contentType |-> The(inv.selectedFile).type])

\* uploadFileToOSS(preUploadResult.data.uploadUrl, selectedFile,
\* preUploadResult.data.contentType)
PutRequest(inv, preUploadResult) ==
  Event("put", [uploadUrl |-> preUploadResult.data.uploadUrl,
                file |-> The(inv.selectedFile),
                contentType |-> preUploadResult.data.contentType])

\* await preUploadFile(...) settles.
PreUploadSettles(i) ==
  /\ invocations[i].pc = "negotiating"
  /\ \E response \in {OkResponse(d) : d \in PreUploadData} \cup FailureResponses :
       LET inv == invocations[i]
           preUploadResult == preUploadFile(response)
       IN IF PreUploadFailed(preUploadResult)
          THEN /\ Fail(inv, TemplatesFailureText("preUploadFile", preUploadResult.message))
               /\ invocations' = [invocations EXCEPT ![i] =
                    [inv EXCEPT !.pc = "failed", !.preUploadResult = Some(preUploadResult)]]
          ELSE /\ uploadProgress' = 60
               /\ invocations' = [invocations EXCEPT ![i] =
                    [inv EXCEPT !.pc = "transferring",
                                !.preUploadResult = Some(preUploadResult),
                                !.log = Append(@, PutRequest(inv, preUploadResult))]]
               /\ UNCHANGED <<isUploading, message>>
  /\ UNCHANGED <<formVars, modalVars, listVars, otherVars>>

\* await uploadFileToOSS(...) settles; on success the handler goes on to
\* build and send the create or update request.
UploadSettles(i) ==
  /\ invocations[i].pc = "transferring"
  /\ \E response \in PutResponses :
       LET inv == invocations[i]
           uploadResult == uploadFileToOSS(response)
           archiveFileId == ArchiveFileIdAfterUpload(The(inv.preUploadResult).data)
       IN IF UploadFailed(uploadResult)
          THEN /\ Fail(inv, TemplatesFailureText("uploadFileToOSS", uploadResult.message))
               /\ invocations' = [invocations EXCEPT ![i] =
                    [inv EXCEPT !.pc = "failed", !.uploadResult = Some(uploadResult)]]
          ELSE /\ uploadProgress' = 90
               /\ invocations' = [invocations EXCEPT ![i] =
                    [inv EXCEPT !.pc = "registering",
                                !.uploadResult = Some(uploadResult),
                                !.archiveFileId = archiveFileId,
                                !.log = Append(@, RegisterRequest(inv, archiveFileId))]]
               /\ UNCHANGED <<isUploading, message>>
  /\ UNCHANGED <<formVars, modalVars, listVars, otherVars>>

\* loadTemplates() up to its await, called from a closure that holds
\* selectedTemplateId `selected`; `by` is the invocation that called it, 0
\* for the mount effect.
LoadTemplatesCalledBy(selected, by) ==
  /\ loading' = TRUE
  /\ listRequests' = Append(listRequests, [selectedTemplateId |-> selected, by |-> by])

LoadTemplatesCalled(selected) == LoadTemplatesCalledBy(selected, 0)

\* The record the backend stores for the create request of invocation i and
\* returns as the response's data.
CreatedTemplate(i, input) ==
  [id |-> Len(ServerTemplates) + i,
   name |-> The(input.name),
   description |-> IF IsSome(input.description) THEN The(input.description) ELSE <<>>,
   archiveFileId |-> IF IsSome(input.archiveFileId) THEN The(input.archiveFileId) ELSE 0]

\* (await response.json()) of the registration request of invocation i
RegisterData(i) ==
  LET inv == invocations[i] IN
  IF inv.handler = "create"
  THEN CreatedTemplate(i, inv.log[Len(inv.log)].arg.input)
  ELSE <<>>

\* await createSoftwareTemplate(input) / updateSoftwareTemplate(id, input)
\* settles.
RegisterSettles(i) ==
  /\ invocations[i].pc = "registering"
  /\ \E response \in {OkResponse(RegisterData(i))} \cup FailureResponses :
       LET inv == invocations[i]
           result == IF inv.handler = "create" THEN createSoftwareTemplate(response)
                     ELSE updateSoftwareTemplate(response)
       IN /\ isUploading' = FALSE
          /\ uploadProgress' = 0
          /\ IF ~result.ok
             THEN /\ message' = ErrorMessage(TemplatesFailureText(inv.handler, result.message))
                  /\ invocations' = [invocations EXCEPT ![i] =
                       [inv EXCEPT !.pc = "failed", !.result = Some(result)]]
                  /\ UNCHANGED <<formVars, modalVars, listVars>>
             ELSE /\ invocations' = [invocations EXCEPT ![i] =
                       [inv EXCEPT !.pc = "done", !.result = Some(result)]]
                  /\ IF inv.handler = "create"
                     THEN /\ message' = SuccessMessage(CreatedText)
                          /\ isCreateModalOpen' = FALSE      \* closeCreateModal()
                          /\ ResetForm
                          /\ UNCHANGED <<isEditModalOpen, editingTemplate>>
                     ELSE /\ message' = SuccessMessage(UpdatedText)
                          /\ isEditModalOpen' = FALSE        \* closeEditModal()
                          /\ editingTemplate' = None
                          /\ ResetForm
                          /\ UNCHANGED isCreateModalOpen
                  /\ LoadTemplatesCalledBy(inv.selectedTemplateId, i)
                  /\ UNCHANGED <<templates, selectedTemplateId, versionsFileId,
                                 versionsLoading, versions, versionsPageInfo,
                                 versionRequests>>
  /\ UNCHANGED otherVars

RemoveAt(seq, k) == SubSeq(seq, 1, k - 1) \o SubSeq(seq, k + 1, Len(seq))

\* The versions the backend holds of file f, page by page, and the answer
\* of listFileVersions(f, page, pageSize).
FileVersionPages(f) ==
  << <<[fileId |-> f, versionNumber |-> 2]>>, <<[fileId |-> f, versionNumber |-> 1]>> >>
FileVersionsData(f, page) ==
  [list |-> FileVersionPages(f)[page],
   page |-> [page |-> page, totalPages |-> Len(FileVersionPages(f))]]

\* versionsPageInfo of the first render and of clearVersions().
NoVersionsPageInfo == [page |-> 1, totalPages |-> 0]

\* loadVersionsForFile(fileId, page, pageSize) up to its await.
LoadVersionsForFile(fileId, page) ==
  /\ versionsLoading' = TRUE
  /\ versionRequests' = Append(versionRequests, [fileId |-> fileId, page |-> page])

\* selectTemplate(template): template is None or Some(record).  The
\* versions shown are named by the file they belong to.
SelectTemplate(template) ==
  /\ selectedTemplateId' = IF IsSome(template) THEN Some(The(template).id) ELSE None
  /\ versionsFileId' = None
  /\ versions' = <<>>
  /\ versionsPageInfo' = NoVersionsPageInfo
  /\ IF ~IsSome(template) \/ The(template).archiveFileId = 0
     THEN /\ versionsLoading' = FALSE               \* clearVersions()
          /\ UNCHANGED versionRequests
     ELSE LoadVersionsForFile(The(template).archiveFileId, 1)

\* A mutant: the first template of the list, whatever was selected.
FirstTemplate(list, selected) == IF list /= <<>> THEN Some(list[1]) ELSE None

\* result.data.list.find(t => t.id === selectedTemplateId) ?? list[0] ?? null
NextTemplate(list, selected) ==
  IF IsSome(selected) /\ \E k \in 1..Len(list) : list[k].id = The(selected)
  THEN Some(list[CHOOSE k \in 1..Len(list) : list[k].id = The(selected)])
  ELSE IF list /= <<>> THEN Some(list[1]) ELSE None

\* The templates the backend holds: the ones it had and the ones created.
ServerList ==
  LET created == SelectSeq(invocations,
                   LAMBDA inv : inv.handler = "create" /\ inv.pc = "done")
  IN ServerTemplates \o [k \in 1..Len(created) |-> The(created[k].result).data]

\* await listSoftwareTemplates(...) of a loadTemplates call settles.  A
\* selection that changes selectedTemplateId gives loadTemplates a new
\* identity, so the mount effect runs again and calls it.
LoadTemplatesAnswered(k, response) ==
  /\ LET result == listSoftwareTemplates(response)
         request == listRequests[k]
     IN
       IF ~result.ok
       THEN /\ message' = ErrorMessage(TemplatesFailureText("listSoftwareTemplates", result.message))
            /\ loading' = FALSE
            /\ listRequests' = RemoveAt(listRequests, k)
            /\ UNCHANGED <<templates, selectedTemplateId, versionsFileId,
                           versionsLoading, versions, versionsPageInfo,
                           versionRequests, invocations>>
       ELSE LET nextTemplate == NextTemplate(result.data, request.selectedTemplateId)
                nextId == IF IsSome(nextTemplate) THEN Some(The(nextTemplate).id) ELSE None
            IN /\ templates' = result.data
               /\ SelectTemplate(nextTemplate)
               /\ IF nextId = selectedTemplateId
                  THEN /\ loading' = FALSE
                       /\ listRequests' = RemoveAt(listRequests, k)
                  ELSE /\ loading' = TRUE
                       /\ listRequests' = Append(RemoveAt(listRequests, k),
                                                 [selectedTemplateId |-> nextId, by |-> 0])
               /\ invocations' =
                    IF request.by = 0 THEN invocations
                    ELSE [invocations EXCEPT ![request.by].reloaded = Some(nextId)]
               /\ UNCHANGED message
  /\ UNCHANGED <<formVars, modalVars, isUploading, uploadProgress, otherVars>>

\* The same, the backend holding `list`.
LoadTemplatesSettlesWith(k, list) ==
  \E response \in {OkResponse(list)} \cup FailureResponses :
    LoadTemplatesAnswered(k, response)

LoadTemplatesSettles(k) == LoadTemplatesSettlesWith(k, ServerList)

\* await listFileVersions(...) of a loadVersionsForFile call settles.
LoadVersionsSettles(k) ==
  /\ LET request == versionRequests[k] IN
     \E response \in {OkResponse(FileVersionsData(request.fileId, request.page))}
                      \cup FailureResponses :
       LET result == listFileVersions(response) IN
       /\ versionsLoading' = FALSE
       /\ versionRequests' = RemoveAt(versionRequests, k)
       /\ IF ~result.ok
          THEN /\ message' = ErrorMessage(TemplatesFailureText("listFileVersions", result.message))
               /\ UNCHANGED <<versionsFileId, versions, versionsPageInfo>>
          ELSE /\ versionsFileId' = Some(request.fileId)
               /\ versions' = result.data.list
               /\ versionsPageInfo' = result.data.page
               /\ UNCHANGED message
  /\ UNCHANGED <<formVars, modalVars, isUploading, uploadProgress, invocations,
                 templates, selectedTemplateId, loading, listRequests,
                 otherVars>>

-----------------------------------------------------------------------------
(* Specification of the software-template page.                            *)

ErrIdle == apiCall = None /\ banner = None
\* Signed in without "remember me": the token is in the session store.
AuthIdle ==
  /\ localToken = None
  /\ sessionToken = Some(<<"t1">>)
  /\ localAdmin = None
  /\ sessionAdmin = Some([id |-> <<"1">>, role |-> "super_admin"])
  /\ route = "templates"
  /\ effectsRun = TRUE
  /\ handlerPage = None
  /\ authCall = None
EditIdle ==
  /\ editKind = "none"
  /\ editingRecord = None
  /\ editForm = <<>>
  /\ updateRequest = None

\* The ids of the records the backend holds: two agents, providers and
\* models, one binding.
StoredIds == [agent |-> {1, 2}, provider |-> {1, 2}, model |-> {1, 2}, binding |-> {1}]

\* No list of the agent page or of the LLM page is loaded.
NoRecords == [agent |-> <<>>, provider |-> <<>>, model |-> <<>>, binding |-> <<>>]
NothingSelected == [agent |-> None, provider |-> None, model |-> None]
ResourcesIdle ==
  /\ activeTab = "providers"
  /\ records = NoRecords
  /\ selectedIds = NothingSelected
  /\ bindingsLoading = FALSE
  /\ resourceCalls = <<>>
  /\ backend = StoredIds
  /\ confirmed = None

\* The list as the first load leaves it, with either template selected.
ListLoaded ==
  /\ templates = ServerTemplates
  /\ \E k \in 1..Len(ServerTemplates) :
       /\ selectedTemplateId = Some(ServerTemplates[k].id)
       /\ versionsFileId = IF ServerTemplates[k].archiveFileId = 0 THEN None
                           ELSE Some(ServerTemplates[k].archiveFileId)
       /\ versions = IF ServerTemplates[k].archiveFileId = 0 THEN <<>>
                     ELSE FileVersionsData(ServerTemplates[k].archiveFileId, 1).list
       /\ versionsPageInfo = IF ServerTemplates[k].archiveFileId = 0 THEN NoVersionsPageInfo
                             ELSE FileVersionsData(ServerTemplates[k].archiveFileId, 1).page
  /\ loading = FALSE
  /\ versionsLoading = FALSE
  /\ listRequests = <<>>
  /\ versionRequests = <<>>

\* A modal the user has opened and filled in: the create modal, or the edit
\* modal of the selected template, the name as opened or typed over and, in
\* "new" mode, a file chosen or not, in "existing" mode, the file id as opened
\* or typed over.
FormPrepared ==
  /\ \/ /\ isCreateModalOpen = TRUE
        /\ isEditModalOpen = FALSE
        /\ editingTemplate = None
     \/ /\ isCreateModalOpen = FALSE
        /\ isEditModalOpen = TRUE
        /\ editingTemplate = SelectedTemplate
  /\ LET opened == IF IsSome(editingTemplate) THEN FormOf(The(editingTemplate))
                   ELSE EmptyForm
     IN \/ /\ uploadMode = "new"
           /\ selectedFile \in {None} \cup {Some(f) : f \in Files}
           /\ \E n \in {opened.name} \cup FieldTexts :
                formData = [opened EXCEPT !.name = n]
        \/ /\ uploadMode = "existing"
           /\ selectedFile = None
           /\ \E n \in {opened.name} \cup FieldTexts,
                 a \in {opened.archiveFileId} \cup FileIdTexts :
                formData = [opened EXCEPT !.name = n, !.archiveFileId = a]
  /\ isUploading = FALSE
  /\ uploadProgress = 0
  /\ message = None
  /\ invocations = <<>>

Init == ListLoaded /\ FormPrepared /\ ErrIdle /\ EditIdle /\ ResourcesIdle /\ AuthIdle

Next ==
  \/ OpenCreateModal
  \/ CloseCreateModal
  \/ OpenEditModal
  \/ CloseEditModal
  \/ HandleUploadAndCreate
  \/ HandleUploadAndUpdate
  \/ \E i \in 1..Len(invocations) : HashSettles(i)
  \/ \E i \in 1..Len(invocations) : PreUploadSettles(i)
  \/ \E i \in 1..Len(invocations) : UploadSettles(i)
  \/ \E i \in 1..Len(invocations) : RegisterSettles(i)
  \/ \E k \in 1..Len(listRequests) : LoadTemplatesSettles(k)
  \/ \E k \in 1..Len(versionRequests) : LoadVersionsSettles(k)

Spec == Init /\ [][Next]_vars


-----------------------------------------------------------------------------
(* Properties of the upload-and-register workflow.                          *)

Invocations == {invocations[i] : i \in 1..Len(invocations)}

\* The operations of the requests an invocation has issued, in order.
Ops(inv) == [k \in 1..Len(inv.log) |-> inv.log[k].op]
Issued(inv, ops) == \E k \in 1..Len(inv.log) : inv.log[k].op \in ops

\* The invocations that upload a newly selected file.
Uploading(inv) == inv.uploadMode = "new" /\ IsSome(inv.selectedFile)

NegotiationFailed(inv) == IsSome(inv.preUploadResult) /\ ~The(inv.preUploadResult).ok
NegotiationSucceeded(inv) == IsSome(inv.preUploadResult) /\ The(inv.preUploadResult).ok
PutFailed(inv) == IsSome(inv.uploadResult) /\ ~The(inv.uploadResult).ok
PutSucceeded(inv) == IsSome(inv.uploadResult) /\ The(inv.uploadResult).ok
InFlight(inv) == inv.pc \notin {"done", "failed"}

\* C1: in both handlers, an invocation whose pre-upload negotiation failed
\* (non-2xx response or thrown fetch) issues no PUT and no create or update
\* request, then or later.
C1_NoRequestAfterFailedNegotiation ==
  \A inv \in Invocations :
    NegotiationFailed(inv) =>
      /\ inv.pc = "failed"
      /\ ~Issued(inv, {"put", "create", "update"})

\* C1 happens: two invocations whose negotiation failed, one by a non-2xx
\* response and one by a thrown fetch.
C1_Witness ==
  \E a, b \in Invocations :
    /\ NegotiationFailed(a) /\ NegotiationFailed(b)
    /\ The(a.preUploadResult).message /= The(b.preUploadResult).message

\* C2: in both handlers, an invocation whose PUT to the object storage failed
\* (non-2xx status or thrown fetch) issues no create or update request.
C2_NoRegistrationAfterFailedPut ==
  \A inv \in Invocations :
    PutFailed(inv) =>
      /\ inv.pc = "failed"
      /\ ~Issued(inv, {"create", "update"})

\* C2 happens: two invocations whose PUT failed, one by a non-2xx status and
\* one by a thrown fetch.
C2_Witness ==
  \E a, b \in Invocations :
    /\ PutFailed(a) /\ PutFailed(b)
    /\ The(a.uploadResult).message /= The(b.uploadResult).message

\* The create or update request of an invocation carries archiveFileId = f.
RegistersFileId(inv, f) ==
  /\ Len(inv.log) = 4
  /\ inv.log[4].op = inv.handler
  /\ inv.log[4].arg.input.archiveFileId = Some(f)

\* C3 as stated: in "new" mode with a selected file, when the negotiation
\* returned file id f and the PUT succeeded, the create or update request
\* carries archiveFileId = f, whatever f is.
C3_AnyFileIdIsRegistered ==
  \A inv \in Invocations :
    (Uploading(inv) /\ NegotiationSucceeded(inv) /\ PutSucceeded(inv)) =>
      RegistersFileId(inv, The(inv.preUploadResult).data.fileId)

\* C3, amended: the same for every file id f other than 0; with f = 0 the
\* request is issued without archiveFileId.
C3_NonZeroFileIdIsRegistered ==
  \A inv \in Invocations :
    (Uploading(inv) /\ NegotiationSucceeded(inv) /\ PutSucceeded(inv)) =>
      LET f == The(inv.preUploadResult).data.fileId IN
      /\ f /= 0 => RegistersFileId(inv, f)
      /\ f = 0 => /\ Len(inv.log) = 4
                  /\ inv.log[4].op = inv.handler
                  /\ inv.log[4].arg.input.archiveFileId = None

\* C3 happens: an update invocation registered the non-zero file id its
\* negotiation returned, and is done.
C3_Witness ==
  \E inv \in Invocations :
    /\ inv.handler = "update" /\ inv.pc = "done"
    /\ Uploading(inv) /\ NegotiationSucceeded(inv) /\ PutSucceeded(inv)
    /\ The(inv.preUploadResult).data.fileId /= 0
    /\ RegistersFileId(inv, The(inv.preUploadResult).data.fileId)

\* The requests of the four steps, in the order of the steps.
StepRequests(inv) == <<"hash", "preupload", "put", inv.handler>>

\* C4: an invocation with a newly selected file is in one step at a time; the
\* requests it has issued are those of the steps up to its own, each once and
\* in the order hashing, negotiating, transferring, registering; a step has
\* started only if the one before it settled successfully; and a failed
\* invocation has issued the requests up to the failing step and no more.
C4_StepsInOrder ==
  \A inv \in Invocations :
    Uploading(inv) =>
      LET n == Len(inv.log) IN
      /\ inv.pc \in {"hashing", "negotiating", "transferring", "registering",
                     "done", "failed"}
      /\ n \in 1..4
      /\ Ops(inv) = SubSeq(StepRequests(inv), 1, n)
      /\ n >= 2 <=> IsSome(inv.fileHash)
      /\ n >= 3 <=> NegotiationSucceeded(inv)
      /\ n >= 4 <=> PutSucceeded(inv)
      /\ inv.pc = "hashing" => n = 1
      /\ inv.pc = "negotiating" => n = 2 /\ ~IsSome(inv.preUploadResult)
      /\ inv.pc = "transferring" => n = 3 /\ ~IsSome(inv.uploadResult)
      /\ inv.pc = "registering" => n = 4 /\ ~IsSome(inv.result)
      /\ inv.pc = "done" => n = 4 /\ IsSome(inv.result) /\ The(inv.result).ok
      /\ inv.pc = "failed" =>
           \/ n = 1 /\ ~IsSome(inv.preUploadResult)
           \/ n = 2 /\ NegotiationFailed(inv) /\ ~IsSome(inv.uploadResult)
           \/ n = 3 /\ PutFailed(inv) /\ ~IsSome(inv.result)
           \/ n = 4 /\ IsSome(inv.result) /\ ~The(inv.result).ok

\* C4 happens: one invocation went through all four steps to done, and another
\* failed at its transfer.
C4_Witness ==
  \E a, b \in Invocations :
    /\ Uploading(a) /\ a.pc = "done"
    /\ Uploading(b) /\ b.pc = "failed" /\ Len(b.log) = 3

\* C5 as stated: at most one invocation is in flight at a time, and while an
\* invocation is in flight isUploading is true and the submit control of the
\* open modal is disabled, in both upload modes, with or without a file.
C5_OneInvocationInFlight ==
  /\ Cardinality({i \in 1..Len(invocations) : InFlight(invocations[i])}) <= 1
  /\ \A inv \in Invocations :
       InFlight(inv) =>
         /\ isUploading
         /\ isCreateModalOpen => CreateSubmitDisabled
         /\ isEditModalOpen => EditSubmitDisabled

\* C6 as stated: the update request of the edit form carries a field only if
\* its value differs from the value in the template loaded into the form.
C6_UpdateSendsOnlyChangedFields ==
  \A inv \in Invocations :
    \A k \in 1..Len(inv.log) :
      inv.log[k].op = "update" =>
        LET input == inv.log[k].arg.input
            loaded == The(inv.editingTemplate)
        IN /\ IsSome(input.name) => The(input.name) /= loaded.name
           /\ IsSome(input.description) => The(input.description) /= loaded.description
           /\ IsSome(input.archiveFileId) => The(input.archiveFileId) /= loaded.archiveFileId


-----------------------------------------------------------------------------
(* Error decoding: one backend call of one page answers with a non-2xx      *)
(* status, and the handler that awaited it puts the failure in the banner.  *)

\* The backend calls of each page whose failure a handler shows.
LoginCalls == {"adminLogin"}
TemplatesCalls ==
  {"preUploadFile", "listFileVersions", "getDownloadUrl", "listSoftwareTemplates",
   "createSoftwareTemplate", "updateSoftwareTemplate"}
LlmCalls ==
  {"listLlmProviders", "createLlmProvider", "updateLlmProvider", "deleteLlmProvider",
   "listLlmModels", "createLlmModel", "updateLlmModel", "deleteLlmModel",
   "listLlmUsageLogs"}
AgentCalls ==
  {"listAgents", "createAgent", "updateAgent", "deleteAgent", "listAgentBindings",
   "createAgentBinding", "deleteAgentBinding", "listLlmProvidersCompact",
   "listLlmModelsCompact"}

BackendCalls(page) ==
  CASE page = "login" -> LoginCalls
    [] page = "dashboard" -> {}
    [] page = "templates" -> TemplatesCalls
    [] page = "llm" -> LlmCalls
    [] page = "agents" -> AgentCalls

\* setMessage({ type: 'error', text: ... }) of the handler that awaited the
\* call: result.message, which the two upload steps of the template page prefix.
FailureBanner(page, api, response) ==
  LET result == ApiResult(page, response, <<>>) IN
  IF page = "templates" THEN TemplatesFailureText(api, result.message)
  ELSE result.message

\* The template page at rest: list loaded, first template selected, no modal.
PageAtRest ==
  /\ templates = ServerTemplates
  /\ selectedTemplateId = Some(ServerTemplates[1].id)
  /\ versionsFileId = None
  /\ versions = <<>>
  /\ versionsPageInfo = NoVersionsPageInfo
  /\ loading = FALSE
  /\ versionsLoading = FALSE
  /\ listRequests = <<>>
  /\ versionRequests = <<>>
  /\ isCreateModalOpen = FALSE
  /\ isEditModalOpen = FALSE
  /\ editingTemplate = None
  /\ formData = EmptyForm
  /\ selectedFile = None
  /\ uploadMode = "new"
  /\ isUploading = FALSE
  /\ uploadProgress = 0
  /\ message = None
  /\ invocations = <<>>

\* Call `api` of `page`, the one call in flight, answers non-2xx with `body`;
\* its handler shows it.
CallFails(page, api, body) ==
  /\ apiCall = None
  /\ apiCall' = Some([page |-> page, api |-> api, body |-> body])
  /\ banner' = Some(FailureBanner(page, api, HttpError(body)))
  /\ UNCHANGED <<pageVars, resourceVars, editVars, authVars>>

\* setMessage(null), the first statement of every handler.
ClearBanner ==
  /\ IsSome(banner)
  /\ apiCall' = None
  /\ banner' = None
  /\ UNCHANGED <<pageVars, resourceVars, editVars, authVars>>

InitErr == PageAtRest /\ ErrIdle /\ EditIdle /\ ResourcesIdle /\ AuthIdle

NextErr ==
  \/ \E page \in Pages : \E api \in BackendCalls(page) : \E body \in Bodies :
       CallFails(page, api, body)
  \/ ClearBanner

SpecErr == InitErr /\ [][NextErr]_vars

\* The body of the failed call is a JSON object whose `message` member is a
\* non-blank string.
HasMessage(call) ==
  /\ JsonParse(call.body).kind = "object"
  /\ IsNonBlankString(JsonParse(call.body).obj.message)
MessageOf(call) == JsonParse(call.body).obj.message.v

C10_DecodersAgree ==
  IsSome(apiCall) =>
    \A p, q \in Pages :
      parseApiErrorMessage(p, The(apiCall).body) = parseApiErrorMessage(q, The(apiCall).body)


-----------------------------------------------------------------------------
(* The edit forms of the agent page and of the LLM page: a record is loaded *)
(* into the form, the user changes fields, and submit builds the update     *)
(* request from the form and the loaded record.                             *)

\* The records of the backend, as the list calls return them.
ServerAgents ==
  {[id |-> 1, name |-> <<"a">>, description |-> <<"d">>, instruction |-> <<>>,
    agentType |-> <<"code">>],
   [id |-> 2, name |-> <<"b">>, description |-> <<>>, instruction |-> <<"i">>,
    agentType |-> <<"asset">>]}
ServerProviders ==
  {[id |-> 1, name |-> <<"p">>, baseUrl |-> <<"u">>, hasApiKey |-> TRUE,
    description |-> <<"d">>],
   [id |-> 2, name |-> <<"q">>, baseUrl |-> <<>>, hasApiKey |-> FALSE,
    description |-> <<>>]}
ServerModels ==
  {[id |-> 1, providerId |-> 1, modelName |-> <<"g">>, modelType |-> <<"llm">>,
    maxInputTokens |-> 8, maxOutputTokens |-> 0, supportStream |-> TRUE,
    supportJson |-> FALSE, priceInputPer1k |-> 1, priceOutputPer1k |-> 0],
   [id |-> 2, providerId |-> 2, modelName |-> <<"h">>, modelType |-> <<"vlm">>,
    maxInputTokens |-> 0, maxOutputTokens |-> 8, supportStream |-> FALSE,
    supportJson |-> TRUE, priceInputPer1k |-> 0, priceOutputPer1k |-> 1]}

\* What the user can put in each field of each form.
AgentFieldValues ==
  [name |-> {<<>>, <<"a">>, <<"a", Space>>, <<"b">>},
   description |-> {<<>>, <<"d">>, <<"d", Space>>},
   instruction |-> {<<>>, <<"i">>, <<Space, "i">>},
   agentType |-> {<<"code">>, <<"asset">>}]
ProviderFieldValues ==
  [name |-> {<<>>, <<"p">>, <<"p", Space>>, <<"q">>},
   baseUrl |-> {<<>>, <<"u">>, <<"u", Space>>},
   description |-> {<<>>, <<"d">>, <<Space, "d">>},
   apiKey |-> {<<>>, <<"k">>},
   clearApiKey |-> BOOLEAN]
ModelFieldValues ==
  [providerId |-> {<<>>, <<"1">>, <<"2">>},
   modelName |-> {<<>>, <<"g">>, <<"g", Space>>},
   modelType |-> {<<"llm">>, <<"vlm">>},
   maxInputTokens |-> {<<>>, <<"8">>, <<"-", "1">>},
   maxOutputTokens |-> {<<"0">>, <<"8">>},
   supportStream |-> BOOLEAN,
   supportJson |-> BOOLEAN,
   priceInputPer1k |-> {<<"0">>, <<"1">>},
   priceOutputPer1k |-> {<<"0">>, <<"1">>}]

\* Literal texts of the two pages (the source's literals are partly Chinese).
AgentNameRequiredText == <<"agent name must not be empty">>
AgentTypeRequiredText == <<"agent type must not be empty">>
AgentUpdatedText == <<"agent updated">>
ProviderNameRequiredText == <<"provider name must not be empty">>
ProviderUpdatedText == <<"provider updated">>
ProviderRequiredText == <<"choose a provider">>
ModelNameRequiredText == <<"model name must not be empty">>
ModelUpdatedText == <<"model updated">>

\* parseFloat on the texts of ModelFieldValues, which are whole numbers.
ParseFloat(s) == ParseInt(s)

\* isNaN(v) ? 0 : Math.max(0, v)
NonNegativeOrZero(v) == IF ~IsSome(v) \/ The(v) < 0 THEN 0 ELSE The(v)

\* if (sent !== loaded) payload.field = sent
IfChanged(sent, loaded) == IF sent /= loaded THEN Some(sent) ELSE None

\* openEditAgent(agent): the form it fills
AgentFormOf(agent) ==
  [name |-> agent.name, description |-> agent.description,
   instruction |-> agent.instruction, agentType |-> agent.agentType]

\* submitAgent, edit mode: description and instruction are compared as typed
\* and sent trimmed.
AgentUpdatePayload(form, editingAgent) ==
  [name |-> IF ~IsBlank(form.name) /\ Trim(form.name) /= editingAgent.name
            THEN Some(Trim(form.name)) ELSE None,
   description |-> IF form.description /= editingAgent.description
                   THEN Some(Trim(form.description)) ELSE None,
   instruction |-> IF form.instruction /= editingAgent.instruction
                   THEN Some(Trim(form.instruction)) ELSE None,
   agentType |-> IF ~IsBlank(form.agentType) /\ Trim(form.agentType) /= editingAgent.agentType
                 THEN Some(Trim(form.agentType)) ELSE None]

\* openEditProvider(provider): the form it fills
ProviderFormOf(provider) ==
  [name |-> provider.name, baseUrl |-> provider.baseUrl,
   description |-> provider.description, apiKey |-> <<>>, clearApiKey |-> FALSE]

\* submitProvider, edit mode
ProviderUpdatePayload(form, editingProvider) ==
  [name |-> IF ~IsBlank(form.name) /\ Trim(form.name) /= editingProvider.name
            THEN Some(Trim(form.name)) ELSE None,
   baseUrl |-> IfChanged(Trim(form.baseUrl), editingProvider.baseUrl),
   description |-> IfChanged(Trim(form.description), editingProvider.description),
   clearApiKey |-> IF form.clearApiKey THEN Some(TRUE) ELSE None,
   apiKey |-> IF ~form.clearApiKey /\ ~IsBlank(form.apiKey)
              THEN Some(Trim(form.apiKey)) ELSE None]

\* openEditModel(m): the form it fills
ModelFormOf(m) ==
  [providerId |-> NumberText(m.providerId),
   modelName |-> m.modelName,
   modelType |-> m.modelType,
   maxInputTokens |-> NumberText(m.maxInputTokens),
   maxOutputTokens |-> NumberText(m.maxOutputTokens),
   supportStream |-> m.supportStream,
   supportJson |-> m.supportJson,
   priceInputPer1k |-> NumberText(m.priceInputPer1k),
   priceOutputPer1k |-> NumberText(m.priceOutputPer1k)]

\* submitModel, edit mode; providerId is the parsed provider id.
ModelUpdatePayload(form, providerId, editingModel) ==
  [providerId |-> IfChanged(providerId, editingModel.providerId),
   modelName |-> IfChanged(Trim(form.modelName), editingModel.modelName),
   modelType |-> IfChanged(form.modelType, editingModel.modelType),
   maxInputTokens |-> IfChanged(NonNegativeOrZero(ParseInt(form.maxInputTokens)),
                                editingModel.maxInputTokens),
   maxOutputTokens |-> IfChanged(NonNegativeOrZero(ParseInt(form.maxOutputTokens)),
                                 editingModel.maxOutputTokens),
   supportStream |-> IfChanged(form.supportStream, editingModel.supportStream),
   supportJson |-> IfChanged(form.supportJson, editingModel.supportJson),
   priceInputPer1k |-> IfChanged(NonNegativeOrZero(ParseFloat(form.priceInputPer1k)),
                                 editingModel.priceInputPer1k),
   priceOutputPer1k |-> IfChanged(NonNegativeOrZero(ParseFloat(form.priceOutputPer1k)),
                                  editingModel.priceOutputPer1k)]


\* The update request a submit handler issues: updateAgent(editingAgent.id,
\* payload) and its like, with the record the handler's closure holds.
UpdateRequest(kind, loaded, payload) ==
  [kind |-> kind, id |-> loaded.id, loaded |-> loaded, payload |-> payload]

\* Opening an edit modal: setMessage(null), the record and the form are set.
OpenEdit(kind, record, form) ==
  /\ editKind = "none"
  /\ editKind' = kind
  /\ editingRecord' = Some(record)
  /\ editForm' = form
  /\ banner' = None
  /\ UNCHANGED <<pageVars, resourceVars, apiCall, updateRequest, authVars>>

OpenEditAgent(agent) == OpenEdit("agent", agent, AgentFormOf(agent))
OpenEditProvider(provider) == OpenEdit("provider", provider, ProviderFormOf(provider))
OpenEditModel(m) == OpenEdit("model", m, ModelFormOf(m))

\* An onChange of one field of the open form, while no request is in flight.
SetForm(kind, values) ==
  /\ editKind = kind
  /\ updateRequest = None
  /\ \E field \in DOMAIN values : \E value \in values[field] :
       /\ editForm[field] /= value
       /\ editForm' = [editForm EXCEPT ![field] = value]
  /\ UNCHANGED <<pageVars, resourceVars, errVars, editKind, editingRecord, updateRequest, authVars>>

SetAgentForm == SetForm("agent", AgentFieldValues)
SetProviderForm == SetForm("provider", ProviderFieldValues)
SetModelForm == SetForm("model", ModelFieldValues)

\* A submit handler in edit mode up to its await: a validation message, or
\* the update request.
Submit(kind, invalid, payload) ==
  /\ editKind = kind
  /\ updateRequest = None
  /\ IF IsSome(invalid)
     THEN /\ banner' = invalid
          /\ UNCHANGED updateRequest
     ELSE /\ banner' = None
          /\ updateRequest' = Some(UpdateRequest(kind, The(editingRecord), payload))
  /\ UNCHANGED <<pageVars, resourceVars, apiCall, editKind, editingRecord, editForm, authVars>>

SubmitAgent ==
  Submit("agent",
         IF IsBlank(editForm.name) THEN Some(AgentNameRequiredText)
         ELSE IF IsBlank(editForm.agentType) THEN Some(AgentTypeRequiredText)
         ELSE None,
         AgentUpdatePayload(editForm, The(editingRecord)))

SubmitProvider ==
  Submit("provider",
         IF IsBlank(editForm.name) THEN Some(ProviderNameRequiredText) ELSE None,
         ProviderUpdatePayload(editForm, The(editingRecord)))

SubmitModel ==
  LET providerId == ParseInt(editForm.providerId) IN
  Submit("model",
         IF ~IsSome(providerId) \/ The(providerId) <= 0 THEN Some(ProviderRequiredText)
         ELSE IF IsBlank(editForm.modelName) THEN Some(ModelNameRequiredText)
         ELSE None,
         ModelUpdatePayload(editForm, IF IsSome(providerId) THEN The(providerId) ELSE 0,
                            The(editingRecord)))

\* closeAgentModal / closeProviderModal / closeModelModal
CloseEdit ==
  /\ editKind' = "none"
  /\ editingRecord' = None
  /\ editForm' = <<>>

CloseEditForm ==
  /\ editKind /= "none"
  /\ updateRequest = None
  /\ CloseEdit
  /\ UNCHANGED <<pageVars, resourceVars, errVars, updateRequest, authVars>>

EditUpdatedText(kind) ==
  CASE kind = "agent" -> AgentUpdatedText
    [] kind = "provider" -> ProviderUpdatedText
    [] kind = "model" -> ModelUpdatedText

\* await updateAgent / updateLlmProvider / updateLlmModel settles.
UpdateSettles ==
  /\ IsSome(updateRequest)
  /\ updateRequest' = None
  /\ \E response \in {OkResponse(<<>>)} \cup FailureResponses :
       LET kind == The(updateRequest).kind
           result == ApiResult(IF kind = "agent" THEN "agents" ELSE "llm", response, <<>>)
       IN IF ~result.ok
          THEN /\ banner' = Some(result.message)
               /\ UNCHANGED <<editKind, editingRecord, editForm>>
          ELSE /\ banner' = Some(EditUpdatedText(kind))
               /\ CloseEdit
  /\ UNCHANGED <<pageVars, resourceVars, apiCall, authVars>>

InitEdit == PageAtRest /\ ErrIdle /\ EditIdle /\ ResourcesIdle /\ AuthIdle

NextEdit ==
  \/ \E agent \in ServerAgents : OpenEditAgent(agent)
  \/ \E provider \in ServerProviders : OpenEditProvider(provider)
  \/ \E m \in ServerModels : OpenEditModel(m)
  \/ SetAgentForm
  \/ SetProviderForm
  \/ SetModelForm
  \/ SubmitAgent
  \/ SubmitProvider
  \/ SubmitModel
  \/ CloseEditForm
  \/ UpdateSettles

SpecEdit == InitEdit /\ [][NextEdit]_vars

\* The fields of an update request that the loaded record holds too.
ComparedFields(kind) ==
  CASE kind = "agent" -> {"name", "description", "instruction", "agentType"}
    [] kind = "provider" -> {"name", "baseUrl", "description"}
    [] kind = "model" -> {"providerId", "modelName", "modelType", "maxInputTokens",
                          "maxOutputTokens", "supportStream", "supportJson",
                          "priceInputPer1k", "priceOutputPer1k"}

\* C7 as stated: an update request of the agent, provider or model edit form
\* carries a field only if the value it carries differs from the value of that
\* field in the record loaded into the form.
C7_EditFormsSendOnlyChangedFields ==
  IsSome(updateRequest) =>
    LET request == The(updateRequest) IN
    \A field \in ComparedFields(request.kind) :
      IsSome(request.payload[field]) =>
        The(request.payload[field]) /= request.loaded[field]

-----------------------------------------------------------------------------
(* The software-template page with the user's gestures in the open modal   *)
(* and in the template list, around one workflow invocation.               *)

\* What the user types in the name and in the file id input.
TypedNames == {<<"n">>}
TypedFileIds == {<<"2">>}

\* A gesture in the open modal changes the form alone.
FormGesture ==
  /\ ModalOpen
  /\ UNCHANGED <<isUploading, uploadProgress, message, modalVars, listVars,
                 invocations, otherVars>>

\* onChange of the name input
SetName ==
  /\ FormGesture
  /\ \E text \in TypedNames : formData' = [formData EXCEPT !.name = text]
  /\ UNCHANGED <<selectedFile, uploadMode>>

\* onChange of the file id input, shown in "existing" mode
SetArchiveFileId ==
  /\ FormGesture
  /\ uploadMode = "existing"
  /\ \E text \in TypedFileIds : formData' = [formData EXCEPT !.archiveFileId = text]
  /\ UNCHANGED <<selectedFile, uploadMode>>

\* The two mode buttons: setUploadMode('new') / setUploadMode('existing')
SetUploadMode ==
  /\ FormGesture
  /\ \E mode \in {"new", "existing"} : mode /= uploadMode /\ uploadMode' = mode
  /\ UNCHANGED <<formData, selectedFile>>

\* file.name.replace(/\.[^/.]+$/, ''): the name up to its last dot, when
\* something follows that dot and nothing after it is a slash.
NameWithoutExtension(filename) ==
  LET dot == LastDot(filename) IN
  IF dot = 0 \/ dot = Len(filename)
     \/ \E k \in dot + 1..Len(filename) : filename[k] = "/"
  THEN filename
  ELSE SubSeq(filename, 1, dot - 1)

\* handleFileSelect, shown in "new" mode, for the files the user can pick
HandleFileSelectFrom(files) ==
  /\ FormGesture
  /\ uploadMode = "new"
  /\ \E file \in files :
       /\ selectedFile' = Some(file)
       /\ formData' = IF IsBlank(formData.name)
                      THEN [formData EXCEPT !.name = NameWithoutExtension(file.name)]
                      ELSE formData
  /\ UNCHANGED uploadMode

HandleFileSelect == HandleFileSelectFrom(Files)

\* The clear button next to the selected file's name
ClearSelectedFile ==
  /\ FormGesture
  /\ uploadMode = "new"
  /\ IsSome(selectedFile)
  /\ selectedFile' = None
  /\ UNCHANGED <<formData, uploadMode>>

\* A click on another template of the list, which lies under the overlay
\* while a modal is open.  The new selectedTemplateId gives loadTemplates a
\* new identity, so the mount effect runs again and reloads the list.  The
\* user clicks once the earlier loads have settled.
ClickTemplateAt(k) ==
  /\ Some(templates[k].id) /= selectedTemplateId
  /\ SelectTemplate(Some(templates[k]))
  /\ LoadTemplatesCalled(Some(templates[k].id))
  /\ UNCHANGED <<templates, formVars, modalVars, isUploading, uploadProgress,
                 message, invocations, otherVars>>

ClickTemplate ==
  /\ ~ModalOpen
  /\ listRequests = <<>>
  /\ versionRequests = <<>>
  /\ \E k \in 1..Len(templates) : ClickTemplateAt(k)

\* The one invocation that is followed.
SubmitCreate == invocations = <<>> /\ HandleUploadAndCreate
SubmitUpdate == invocations = <<>> /\ HandleUploadAndUpdate

HashStep == \E i \in 1..Len(invocations) : HashSettles(i)
PreUploadStep == \E i \in 1..Len(invocations) : PreUploadSettles(i)
UploadStep == \E i \in 1..Len(invocations) : UploadSettles(i)
RegisterStep == \E i \in 1..Len(invocations) : RegisterSettles(i)

\* The page is followed from the submit click to the end of the invocation.
Running == \E i \in 1..Len(invocations) : invocations[i].pc \notin {"done", "failed"}

\* A prepared modal, the first template of the list selected.
InitLive == Init /\ selectedTemplateId = Some(ServerTemplates[1].id)

NextLive ==
  \/ SubmitCreate
  \/ SubmitUpdate
  \/ Running /\ OpenCreateModal
  \/ Running /\ CloseCreateModal
  \/ Running /\ OpenEditModal
  \/ Running /\ CloseEditModal
  \/ Running /\ SetName
  \/ Running /\ SetArchiveFileId
  \/ Running /\ SetUploadMode
  \/ Running /\ HandleFileSelect
  \/ Running /\ ClearSelectedFile
  \/ Running /\ ClickTemplate
  \/ HashStep
  \/ PreUploadStep
  \/ UploadStep
  \/ RegisterStep
  \/ Running /\ \E k \in 1..Len(listRequests) : LoadTemplatesSettles(k)
  \/ Running /\ \E k \in 1..Len(versionRequests) : LoadVersionsSettles(k)

\* Each awaited call of the workflow settles.
AwaitedCallsSettle ==
  /\ WF_vars(HashStep)
  /\ WF_vars(PreUploadStep)
  /\ WF_vars(UploadStep)
  /\ WF_vars(RegisterStep)

SpecLive == InitLive /\ [][NextLive]_vars /\ AwaitedCallsSettle

\* C11: an invocation that has passed validation and is under way reaches
\* done or failed, whatever the user does in the meantime (closes the modal,
\* opens another one, edits the form, selects another template), provided
\* its awaited calls settle.
C11_InvocationRunsToItsEnd ==
  (invocations /= <<>> /\ InFlight(invocations[1]))
    ~> (invocations /= <<>> /\ invocations[1].pc \in {"done", "failed"})

\* An uploading invocation with its last step pending, after the user has
\* closed its modal and selected another template.
C11_Witness ==
  /\ invocations /= <<>>
  /\ invocations[1].pc = "registering"
  /\ Ops(invocations[1]) = <<"hash", "preupload", "put", invocations[1].handler>>
  /\ ~ModalOpen
  /\ selectedTemplateId /= invocations[1].selectedTemplateId

-----------------------------------------------------------------------------
(* Further properties of the workflow, specification Spec.                 *)

LastOp(inv) == inv.log[Len(inv.log)].op
TimesIssued(inv, op) == Cardinality({k \in 1..Len(inv.log) : inv.log[k].op = op})
RegistrationFailed(inv) == IsSome(inv.result) /\ ~The(inv.result).ok

\* C12: an invocation issues its negotiation, its PUT and its registration
\* at most once each; the request of the step that failed is the last one it
\* issues; and every invocation that uploads, a resubmission after a failure
\* included, starts with hashing and sends its PUT to the slot of a
\* negotiation it has issued itself.
C12_OnceEachAndFreshOnResubmit ==
  \A i \in 1..Len(invocations) :
    LET inv == invocations[i] IN
    /\ \A op \in {"hash", "preupload", "put", "create", "update"} :
         TimesIssued(inv, op) <= 1
    /\ NegotiationFailed(inv) => inv.pc = "failed" /\ LastOp(inv) = "preupload"
    /\ PutFailed(inv) => inv.pc = "failed" /\ LastOp(inv) = "put"
    /\ RegistrationFailed(inv) => inv.pc = "failed" /\ LastOp(inv) = inv.handler
    /\ inv.pc = "failed" =>
         \/ NegotiationFailed(inv) \/ PutFailed(inv) \/ RegistrationFailed(inv)
         \/ Ops(inv) = <<"hash">>
    /\ Uploading(inv) => inv.log[1].op = "hash"
    /\ \A k \in 1..Len(inv.log) :
         inv.log[k].op = "put" =>
           /\ k = 3 /\ inv.log[2].op = "preupload"
           /\ NegotiationSucceeded(inv)
           /\ inv.log[k].arg.uploadUrl = The(inv.preUploadResult).data.uploadUrl

\* A resubmission after a failed PUT has negotiated again and sends its PUT
\* to another slot than the failed one.
C12_Witness ==
  /\ Len(invocations) = 2
  /\ PutFailed(invocations[1])
  /\ Issued(invocations[2], {"put"})
  /\ The(invocations[2].preUploadResult).data.uploadUrl
       /= The(invocations[1].preUploadResult).data.uploadUrl

\* C13: once the list reload that follows a successful create has been
\* answered, the selected template is the created one.
C13_CreatedTemplateIsSelected ==
  \A i \in 1..Len(invocations) :
    LET inv == invocations[i] IN
    (inv.handler = "create" /\ inv.pc = "done" /\ IsSome(inv.reloaded))
      => The(inv.reloaded) = Some(The(inv.result).data.id)

\* The create or update requests an invocation has issued.
RegisterRequests(inv) ==
  {inv.log[k] : k \in {j \in 1..Len(inv.log) : inv.log[j].op \in {"create", "update"}}}

\* C14 as stated: an archiveFileId carried by a create or update request is
\* always the file id of a successful negotiation followed by a successful
\* PUT of the same invocation.
C14_FileIdOnlyFromUpload ==
  \A inv \in Invocations : \A request \in RegisterRequests(inv) :
    IsSome(request.arg.input.archiveFileId) =>
      /\ NegotiationSucceeded(inv) /\ PutSucceeded(inv)
      /\ request.arg.input.archiveFileId = Some(The(inv.preUploadResult).data.fileId)

\* C14, amended: an invocation that uploads a file carries no other file id
\* than the one of its own successful negotiation and PUT; an invocation in
\* "existing" mode carries no other than the positive integer typed in the
\* file id input; an invocation in "new" mode without a file carries none.
C14_FileIdFromUploadOrTyped ==
  \A inv \in Invocations : \A request \in RegisterRequests(inv) :
    LET carried == request.arg.input.archiveFileId IN
    /\ Uploading(inv) =>
         /\ NegotiationSucceeded(inv) /\ PutSucceeded(inv)
         /\ (IsSome(carried) => carried = Some(The(inv.preUploadResult).data.fileId))
    /\ (inv.uploadMode = "existing" /\ IsSome(carried)) =>
         /\ The(carried) > 0
         /\ ParseInt(Trim(inv.formData.archiveFileId)) = carried
    /\ (inv.uploadMode = "new" /\ ~IsSome(inv.selectedFile)) => carried = None

\* A request that carries a typed file id, and was accepted.
C14_Witness ==
  \E inv \in Invocations : \E request \in RegisterRequests(inv) :
    /\ inv.uploadMode = "existing"
    /\ IsSome(request.arg.input.archiveFileId)
    /\ inv.pc = "done"

-----------------------------------------------------------------------------
(* The token stores and the Authorization header of the backend calls.     *)

LoginRequiredText == <<"please enter user name and password">>  \* 请输入用户名和密码

\* The tokens the backend issues.
Tokens == {<<"t1">>, <<"t2">>}

\* A mutant: the session store is asked first.
SessionStoreFirst(local, session) ==
  IF IsSome(session) /\ The(session) /= <<>> THEN session
  ELSE IF IsSome(local) /\ The(local) /= <<>> THEN local
  ELSE None

\* localStorage.getItem(key) || sessionStorage.getItem(key): null and the
\* empty string are falsy.
getAuthToken(local, session) ==
  IF IsSome(local) /\ The(local) /= <<>> THEN local
  ELSE IF IsSome(session) /\ The(session) /= <<>> THEN session
  ELSE None

\* `Bearer ${token}`: a null token is written out as "null".
BearerHeader(token) ==
  <<"Bearer ">> \o (IF IsSome(token) THEN The(token) ELSE <<"null">>)

\* The routes of the application; every page but the login page checks
\* for a token when it mounts.
Routes == Pages \cup {"dashboard"}
ProtectedPages == Routes \ {"login"}

\* The answers of the backend to a successful login.
LoginData ==
  {[token |-> <<"t1">>, adminId |-> 1, role |-> "super_admin"],
   [token |-> <<"t2">>, adminId |-> 2, role |-> "admin"]}

\* The three keys of one store after a login wrote them.
AdminKeys(data) == Some([id |-> NumberText(data.adminId), role |-> data.role])

\* A backend call as it leaves the browser, with what the stores held then.
IssuedCall(page, api, authorization) ==
  Some([page |-> page, api |-> api, authorization |-> authorization,
        localToken |-> localToken, sessionToken |-> sessionToken])

\* The router shows `page`: a link, a typed URL or the redirect of "/" to
\* "/login".  The page renders, its message empty; its effects run next.
Open(page) ==
  /\ effectsRun
  /\ route /= page
  /\ route' = page
  /\ effectsRun' = FALSE
  /\ banner' = None
  /\ UNCHANGED <<localToken, sessionToken, localAdmin, sessionAdmin,
                 handlerPage, authCall, apiCall, pageVars, resourceVars, editVars>>

\* The effects of each page's first render, in order: whether the effect
\* returns when getAuthToken() is falsy, whether it then navigates to
\* /login, and the backend calls it schedules otherwise (with the state the
\* first render has: no record selected, the providers tab active).
MountEffects(page) ==
  CASE page = "login" -> <<>>
    [] page = "dashboard" ->
         <<[checksToken |-> TRUE, navigates |-> TRUE, calls |-> {}]>>
    [] page = "templates" ->
         <<[checksToken |-> TRUE, navigates |-> TRUE, calls |-> {"listSoftwareTemplates"}]>>
    [] page = "llm" ->
         <<[checksToken |-> TRUE, navigates |-> TRUE, calls |-> {}],
           [checksToken |-> TRUE, navigates |-> FALSE, calls |-> {"listLlmProviders"}]>>
    [] page = "agents" ->
         <<[checksToken |-> TRUE, navigates |-> TRUE,
            calls |-> {"listLlmProvidersCompact", "listLlmModelsCompact"}],
           [checksToken |-> TRUE, navigates |-> FALSE, calls |-> {"listAgents"}],
           [checksToken |-> FALSE, navigates |-> FALSE, calls |-> {}]>>

\* A mutant: no effect looks at the token before it schedules its calls.
ScheduledUnchecked(page, token) ==
  UNION {MountEffects(page)[k].calls : k \in 1..Len(MountEffects(page))}

\* The calls the effects of a mounting page schedule, given the token.
ScheduledCalls(page, token) ==
  UNION {MountEffects(page)[k].calls :
           k \in {e \in 1..Len(MountEffects(page)) :
                    ~MountEffects(page)[e].checksToken \/ IsSome(token)}}

\* Whether an effect of a mounting page calls navigate('/login').
NavigatesToLogin(page, token) ==
  \E k \in 1..Len(MountEffects(page)) :
    MountEffects(page)[k].checksToken /\ MountEffects(page)[k].navigates /\ ~IsSome(token)

\* The effects of the page's first render run.  The calls they schedule are
\* issued by a handler of the page, followed when no other handler is.
RunEffects ==
  /\ ~effectsRun
  /\ effectsRun' = TRUE
  /\ LET token == getAuthToken(localToken, sessionToken) IN
     /\ route' = IF NavigatesToLogin(route, token) THEN "login" ELSE route
     /\ handlerPage' = IF ScheduledCalls(route, token) /= {} /\ handlerPage = None
                       THEN Some(route) ELSE handlerPage
  /\ UNCHANGED <<localToken, sessionToken, localAdmin, sessionAdmin, authCall,
                 pageVars, resourceVars, errVars, editVars>>

\* handleSubmit of the login page, rejected by its check of the two fields.
LoginRejected ==
  /\ route = "login" /\ effectsRun
  /\ banner' = Some(LoginRequiredText)
  /\ UNCHANGED <<apiCall, authVars, pageVars, resourceVars, editVars>>

\* handleSubmit of the login page, adminLogin answering non-2xx or throwing.
LoginFails ==
  /\ route = "login" /\ effectsRun
  /\ \E response \in FailureResponses :
       banner' = Some(ApiResult("login", response, <<>>).message)
  /\ authCall' = IssuedCall("login", "adminLogin", None)
  /\ UNCHANGED <<apiCall, localToken, sessionToken, localAdmin, sessionAdmin,
                 handlerPage, route, effectsRun, pageVars, resourceVars, editVars>>

\* A mutant: a login that writes the session store whatever "remember me"
\* says.
LoginIntoSessionStore(rememberMe, data) ==
  /\ route = "login" /\ effectsRun
  /\ sessionToken' = Some(data.token)
  /\ sessionAdmin' = AdminKeys(data)
  /\ UNCHANGED <<localToken, localAdmin>>
  /\ authCall' = IssuedCall("login", "adminLogin", None)
  /\ banner' = None
  /\ route' = "dashboard"
  /\ effectsRun' = FALSE
  /\ UNCHANGED <<apiCall, handlerPage, pageVars, resourceVars, editVars>>

\* handleSubmit of the login page from the 2xx answer of adminLogin on: the
\* three keys go to the store that "remember me" selects, the success
\* message shows and half a second later the router shows the dashboard.
LoginSucceeds(rememberMe, data) ==
  /\ route = "login" /\ effectsRun
  /\ IF rememberMe
     THEN /\ localToken' = Some(data.token)
          /\ localAdmin' = AdminKeys(data)
          /\ UNCHANGED <<sessionToken, sessionAdmin>>
     ELSE /\ sessionToken' = Some(data.token)
          /\ sessionAdmin' = AdminKeys(data)
          /\ UNCHANGED <<localToken, localAdmin>>
  /\ authCall' = IssuedCall("login", "adminLogin", None)
  /\ banner' = None
  /\ route' = "dashboard"
  /\ effectsRun' = FALSE
  /\ UNCHANGED <<apiCall, handlerPage, pageVars, resourceVars, editVars>>

\* A mutant: a logout that clears the session store alone.
LogoutOfSessionStore ==
  /\ route \in ProtectedPages /\ effectsRun
  /\ sessionToken' = None
  /\ sessionAdmin' = None
  /\ route' = "login"
  /\ effectsRun' = FALSE
  /\ banner' = None
  /\ UNCHANGED <<localToken, localAdmin, handlerPage, authCall, apiCall, pageVars, resourceVars, editVars>>

\* handleLogout of a protected page.  A handler of the page that is
\* awaiting something goes on afterwards.
HandleLogout ==
  /\ route \in ProtectedPages /\ effectsRun
  /\ localToken' = None
  /\ localAdmin' = None
  /\ sessionToken' = None
  /\ sessionAdmin' = None
  /\ route' = "login"
  /\ effectsRun' = FALSE
  /\ banner' = None
  /\ UNCHANGED <<handlerPage, authCall, apiCall, pageVars, resourceVars, editVars>>

\* A handler of the mounted page starts on a click.
StartHandler(page) ==
  /\ handlerPage = None
  /\ route = page /\ effectsRun
  /\ BackendCalls(page) /= {}
  /\ handlerPage' = Some(page)
  /\ UNCHANGED <<localToken, sessionToken, localAdmin, sessionAdmin, authCall,
                 route, effectsRun, pageVars, resourceVars, errVars, editVars>>

\* The handler under way calls wrapper `api`, which reads the token as it
\* builds the request; the handler then ends or goes on to a further call.
IssueCall(api) ==
  /\ IsSome(handlerPage)
  /\ api \in BackendCalls(The(handlerPage))
  /\ authCall' = IssuedCall(The(handlerPage), api,
                            Some(BearerHeader(getAuthToken(localToken, sessionToken))))
  /\ handlerPage' \in {handlerPage, None}
  /\ UNCHANGED <<localToken, sessionToken, localAdmin, sessionAdmin, route,
                 effectsRun, pageVars, resourceVars, errVars, editVars>>

\* uploadFileToOSS: the PUT to the pre-signed URL has a Content-Type header
\* only.
IssuePut ==
  /\ handlerPage = Some("templates")
  /\ authCall' = IssuedCall("templates", "uploadFileToOSS", None)
  /\ UNCHANGED <<localToken, sessionToken, localAdmin, sessionAdmin, handlerPage,
                 route, effectsRun, pageVars, resourceVars, errVars, editVars>>

\* The application as a browser with empty stores opens it.
InitAuth ==
  /\ PageAtRest /\ ErrIdle /\ EditIdle /\ ResourcesIdle
  /\ localToken = None
  /\ sessionToken = None
  /\ localAdmin = None
  /\ sessionAdmin = None
  /\ route = "login"
  /\ effectsRun = TRUE
  /\ handlerPage = None
  /\ authCall = None

NextAuth ==
  \/ \E page \in Routes : Open(page)
  \/ RunEffects
  \/ LoginRejected
  \/ LoginFails
  \/ \E rememberMe \in BOOLEAN : \E data \in LoginData : LoginSucceeds(rememberMe, data)
  \/ HandleLogout
  \/ \E page \in ProtectedPages : StartHandler(page)
  \/ \E page \in ProtectedPages : \E api \in BackendCalls(page) : IssueCall(api)
  \/ IssuePut

SpecAuth == InitAuth /\ [][NextAuth]_vars

Authorized(call) == call.api \notin {"adminLogin", "uploadFileToOSS"}

\* C15 as stated: every backend call other than login and the PUT carries
\* Authorization: Bearer t, t being the token the persistent store held at
\* the time of the call if it held one, and otherwise the token the session
\* store held.
C15_BearerOfHeldToken ==
  (IsSome(authCall) /\ Authorized(The(authCall))) =>
    LET call == The(authCall) IN
    \E t \in Tokens :
      /\ \/ call.localToken = Some(t)
         \/ call.localToken = None /\ call.sessionToken = Some(t)
      /\ call.authorization = Some(<<"Bearer ">> \o t)

\* C15, amended: the same whenever a store held a token at the time of the
\* call; when neither did, the call is issued all the same, with
\* Authorization: Bearer null.
C15_BearerOfHeldTokenOrNull ==
  (IsSome(authCall) /\ Authorized(The(authCall))) =>
    LET call == The(authCall) IN
    /\ \A t \in Tokens :
         (\/ call.localToken = Some(t)
          \/ call.localToken = None /\ call.sessionToken = Some(t))
           => call.authorization = Some(<<"Bearer ">> \o t)
    /\ (call.localToken = None /\ call.sessionToken = None)
         => call.authorization = Some(<<"Bearer ", "null">>)

\* A call issued while the two stores held different tokens.
C15_Witness ==
  /\ IsSome(authCall)
  /\ Authorized(The(authCall))
  /\ IsSome(The(authCall).localToken)
  /\ IsSome(The(authCall).sessionToken)
  /\ The(authCall).localToken /= The(authCall).sessionToken

-----------------------------------------------------------------------------
(* The validation at the head of the submit handlers: the form shown is    *)
(* editForm of handler editKind, the request a submit issues is put in     *)
(* updateRequest, the banner is the handler's message.                     *)

SubmitHandlers == {"login", "templateCreate", "agent", "provider", "model", "binding"}

\* What the user leaves or types in a text input and in a number input.
TextInputs == {<<>>, <<Space>>, <<"x">>}
NumberInputs == {<<>>, <<"0">>, <<"2">>, <<"-", "1">>}

\* The required fields of each handler's form.
SubmitForms(handler) ==
  CASE handler = "login" -> [username : TextInputs, password : TextInputs]
    [] handler = "templateCreate" -> [name : TextInputs]
    [] handler = "agent" -> [name : TextInputs, agentType : TextInputs]
    [] handler = "provider" -> [name : TextInputs]
    [] handler = "model" -> [providerId : NumberInputs, modelName : TextInputs]
    [] handler = "binding" -> [llmModelId : NumberInputs]

ModelRequiredText == <<"please choose an LLM model">>           \* 请选择 LLM Model

\* A mutant: no text is ever found missing.
NeverMissing(handler, text) == FALSE

\* !loginForm.username on the login page, !form.name.trim() elsewhere
TextMissing(handler, text) ==
  IF handler = "login" THEN text = <<>> ELSE IsBlank(text)

\* isNaN(n) || n <= 0 of n = parseInt(text, 10)
NotAPositiveId(text) ==
  LET n == ParseInt(text) IN ~IsSome(n) \/ The(n) <= 0

\* The message of the first check of the handler that fails, if one does.
ValidationError(handler, form) ==
  CASE handler = "login" ->
         IF TextMissing(handler, form.username) \/ TextMissing(handler, form.password)
         THEN Some(LoginRequiredText) ELSE None
    [] handler = "templateCreate" ->
         IF TextMissing(handler, form.name) THEN Some(NameRequiredText) ELSE None
    [] handler = "agent" ->
         IF TextMissing(handler, form.name) THEN Some(AgentNameRequiredText)
         ELSE IF TextMissing(handler, form.agentType) THEN Some(AgentTypeRequiredText)
         ELSE None
    [] handler = "provider" ->
         IF TextMissing(handler, form.name) THEN Some(ProviderNameRequiredText) ELSE None
    [] handler = "model" ->
         IF NotAPositiveId(form.providerId) THEN Some(ProviderRequiredText)
         ELSE IF TextMissing(handler, form.modelName) THEN Some(ModelNameRequiredText)
         ELSE None
    [] handler = "binding" ->
         IF NotAPositiveId(form.llmModelId) THEN Some(ModelRequiredText) ELSE None

\* The user opens a form and fills it in.
FillForm(handler, form) ==
  /\ editKind' = handler
  /\ editForm' = form
  /\ UNCHANGED <<editingRecord, updateRequest, banner, apiCall, pageVars, resourceVars, authVars>>

\* A submit: setMessage(null), the checks, and either the error message and
\* return, or the request.
SubmitForm ==
  /\ editKind \in SubmitHandlers
  /\ LET error == ValidationError(editKind, editForm) IN
     IF IsSome(error)
     THEN /\ banner' = error
          /\ UNCHANGED updateRequest
     ELSE /\ banner' = None
          /\ updateRequest' = Some([handler |-> editKind, form |-> editForm])
  /\ UNCHANGED <<editKind, editForm, editingRecord, apiCall, pageVars, resourceVars, authVars>>

\* The request is answered and the form is left.
LeaveForm ==
  /\ editKind \in SubmitHandlers
  /\ editKind' = "none"
  /\ editForm' = <<>>
  /\ updateRequest' = None
  /\ banner' = None
  /\ UNCHANGED <<editingRecord, apiCall, pageVars, resourceVars, authVars>>

InitSubmit == PageAtRest /\ ErrIdle /\ EditIdle /\ ResourcesIdle /\ AuthIdle

NextSubmit ==
  \/ \E handler \in SubmitHandlers : \E form \in SubmitForms(handler) :
       FillForm(handler, form)
  \/ SubmitForm
  \/ LeaveForm

SpecSubmit == InitSubmit /\ [][NextSubmit]_vars

\* A required text is blank, or a required id is not a positive number.
RequiredFieldBlankOrInvalid(handler, form) ==
  CASE handler = "login" -> IsBlank(form.username) \/ IsBlank(form.password)
    [] handler = "templateCreate" -> IsBlank(form.name)
    [] handler = "agent" -> IsBlank(form.name) \/ IsBlank(form.agentType)
    [] handler = "provider" -> IsBlank(form.name)
    [] handler = "model" -> NotAPositiveId(form.providerId) \/ IsBlank(form.modelName)
    [] handler = "binding" -> NotAPositiveId(form.llmModelId)

\* The same, an empty text in place of a blank one on the login page.
RequiredFieldMissingOrInvalid(handler, form) ==
  IF handler = "login" THEN form.username = <<>> \/ form.password = <<>>
  ELSE RequiredFieldBlankOrInvalid(handler, form)

\* A submit that only puts an error message in the banner.
RejectedWithBanner ==
  /\ IsSome(banner')
  /\ UNCHANGED <<updateRequest, editKind, editForm, editingRecord, apiCall,
                 pageVars, resourceVars, authVars>>

\* C16 as stated: a submit with a required field blank or invalid sets an
\* error banner, issues no request and changes nothing else.
C16_BlankIsRejected ==
  [][(SubmitForm /\ RequiredFieldBlankOrInvalid(editKind, editForm))
       => RejectedWithBanner]_vars

\* C16, amended: the same, the login page rejecting only an empty user name
\* or password (one of white space is sent to the backend).
C16_MissingIsRejected ==
  [][(SubmitForm /\ RequiredFieldMissingOrInvalid(editKind, editForm))
       => RejectedWithBanner]_vars

\* A rejected submit of the model form: the provider id is not positive,
\* the banner says so and no request was issued.
C16_Witness ==
  /\ editKind = "model"
  /\ editForm.providerId = <<"0">>
  /\ banner = Some(ProviderRequiredText)
  /\ updateRequest = None

-----------------------------------------------------------------------------
(* Failures of the workflow, specification Spec.                           *)

\* The invocation uploads and has failed before it had a hash.
HashFailed(inv) == Uploading(inv) /\ inv.pc = "failed" /\ ~IsSome(inv.fileHash)

\* C17: when calculateFileHash throws, the invocation ends in failed with
\* the error banner and isUploading = FALSE, having issued no negotiation,
\* PUT, create or update request, and it issues none afterwards.
C17_HashFailureEndsInvocation ==
  [][\A i \in 1..Len(invocations) :
       /\ (invocations[i].pc = "hashing" /\ invocations'[i].pc = "failed") =>
            /\ message' = ErrorMessage(UploadThrewText)
            /\ isUploading' = FALSE
            /\ Ops(invocations'[i]) = <<"hash">>
       /\ HashFailed(invocations[i]) => invocations'[i] = invocations[i]]_vars

\* An invocation whose hashing failed, the banner and isUploading as the
\* catch block left them.
C17_Witness ==
  \E inv \in Invocations :
    /\ HashFailed(inv)
    /\ message = ErrorMessage(UploadThrewText)
    /\ ~isUploading

\* The PUT requests an invocation has issued.
PutRequests(inv) ==
  {inv.log[k] : k \in {j \in 1..Len(inv.log) : inv.log[j].op = "put"}}

\* C18: an invocation sends its PUT to the uploadUrl and with the
\* Content-Type that its own negotiation returned, with the file it was
\* started with, and the file id it registers is the one of that same
\* negotiation.
C18_PutAndRegistrationUseOwnSlot ==
  \A inv \in Invocations :
    /\ \A put \in PutRequests(inv) :
         /\ NegotiationSucceeded(inv)
         /\ put.arg.uploadUrl = The(inv.preUploadResult).data.uploadUrl
         /\ put.arg.contentType = The(inv.preUploadResult).data.contentType
         /\ put.arg.file = The(inv.selectedFile)
    /\ Uploading(inv) =>
         \A request \in RegisterRequests(inv) :
           request.arg.input.archiveFileId
             \in {None, Some(The(inv.preUploadResult).data.fileId)}

\* Two invocations whose negotiations returned different slots; each has
\* sent its PUT, and the second has registered its own file id.
C18_Witness ==
  /\ Len(invocations) = 2
  /\ PutRequests(invocations[1]) /= {}
  /\ PutRequests(invocations[2]) /= {}
  /\ The(invocations[1].preUploadResult).data /= The(invocations[2].preUploadResult).data
  /\ \E request \in RegisterRequests(invocations[2]) :
       IsSome(request.arg.input.archiveFileId)
  /\ \A put \in PutRequests(invocations[2]) :
       put.arg.contentType /= The(invocations[2].selectedFile).type

\* C20: the step in which an invocation fails, at whichever step, leaves
\* isUploading = FALSE, uploadProgress = 0 and an error banner, and touches
\* neither the modals nor the form fields nor the selected file.
C20_FailureLeavesFormForResubmit ==
  [][\A i \in 1..Len(invocations) :
       (invocations[i].pc /= "failed" /\ invocations'[i].pc = "failed") =>
         /\ isUploading' = FALSE
         /\ uploadProgress' = 0
         /\ IsSome(message') /\ The(message').type = "error"
         /\ UNCHANGED <<formVars, modalVars>>]_vars

\* An invocation that uploaded and failed at registration: its modal is
\* open with the form and the file it was started with, and the submit
\* button is enabled again.
C20_Witness ==
  \E inv \in Invocations :
    /\ Uploading(inv) /\ RegistrationFailed(inv)
    /\ inv.handler = "create"
    /\ isCreateModalOpen /\ ~CreateSubmitDisabled
    /\ formData = inv.formData /\ selectedFile = inv.selectedFile
    /\ ~isUploading /\ uploadProgress = 0
    /\ IsSome(message) /\ The(message).type = "error"

-----------------------------------------------------------------------------
(* The decoding order of parseApiErrorMessage, specification SpecErr.      *)

\* C19 as stated: every page's parseApiErrorMessage returns the `message`
\* member when it is a non-blank string; otherwise the `msg` member when it
\* is a non-blank string; otherwise the trimmed body text; and "Request
\* failed" only when the body is empty or white space.
C19_MessageThenMsgThenText ==
  IsSome(apiCall) =>
    LET body == The(apiCall).body
        decoded == parseApiErrorMessage(The(apiCall).page, body)
        parsed == JsonParse(body)
        isObject == parsed.kind = "object"
    IN /\ (isObject /\ IsNonBlankString(parsed.obj.message))
            => decoded = parsed.obj.message.v
       /\ (isObject /\ ~IsNonBlankString(parsed.obj.message)
                    /\ IsNonBlankString(parsed.obj.msg))
            => decoded = parsed.obj.msg.v
       /\ (~isObject \/ (~IsNonBlankString(parsed.obj.message)
                         /\ ~IsNonBlankString(parsed.obj.msg)))
            => decoded = (IF IsBlank(body) THEN RequestFailed ELSE Trim(body))
       /\ decoded = RequestFailed => IsBlank(body)

-----------------------------------------------------------------------------
(* The file category sent to negotiation, specification SpecCategory: the  *)
(* create workflow over files of many names.                               *)

\* The longest file name, in tokens.
MaxNameLen == 3

\* The tokens of a file name: the dot and pieces that hold no dot.
NameTokens == {".", "t", "ZIP", "png", "Mp4", "WAV", "Ts", "XYZ"}

\* File names: between two dots stands at most one piece.
FileNames ==
  {n \in UNION {[1..len -> NameTokens] : len \in 1..MaxNameLen} :
     \A k \in 1..Len(n) - 1 : n[k] = "." \/ n[k + 1] = "."}

NamedFiles == {[name |-> n, content |-> "c1", size |-> 1, type |-> <<>>] : n \in FileNames}

\* The user picks a file in the create modal and may type a name.
PickFile == selectedFile = None /\ invocations = <<>> /\ HandleFileSelectFrom(NamedFiles)
TypeName == invocations = <<>> /\ SetName

\* The create modal as openCreateModal leaves it, the second template of
\* the list selected.
InitCategory ==
  /\ ListLoaded /\ selectedTemplateId = Some(ServerTemplates[2].id)
  /\ isCreateModalOpen = TRUE /\ isEditModalOpen = FALSE /\ editingTemplate = None
  /\ formData = EmptyForm /\ selectedFile = None /\ uploadMode = "new"
  /\ isUploading = FALSE /\ uploadProgress = 0 /\ message = None
  /\ invocations = <<>>
  /\ ErrIdle /\ EditIdle /\ ResourcesIdle /\ AuthIdle

NextCategory ==
  \/ PickFile
  \/ TypeName
  \/ SubmitCreate
  \/ HashStep
  \/ PreUploadStep
  \/ UploadStep
  \/ RegisterStep
  \/ \E k \in 1..Len(listRequests) : LoadTemplatesSettles(k)
  \/ \E k \in 1..Len(versionRequests) : LoadVersionsSettles(k)

SpecCategory == InitCategory /\ [][NextCategory]_vars

\* The negotiation requests issued so far.
PreUploadInputs ==
  UNION {{inv.log[k].arg : k \in {j \in 1..Len(inv.log) : inv.log[j].op = "preupload"}} :
         inv \in Invocations}

Categories == {"image", "video", "audio", "text", "archive", "binary"}
TableExts == imageExts \cup videoExts \cup audioExts \cup textExts \cup archiveExts

\* The category of an extension that stands in a table.
TableCategory(ext) ==
  CASE ext \in imageExts -> "image" [] ext \in videoExts -> "video"
    [] ext \in audioExts -> "audio" [] ext \in textExts -> "text"
    [] ext \in archiveExts -> "archive"

\* The lower-cased text after the last dot of a name; "" when the name has
\* no dot or ends with its last dot.
AfterLastDot(name) ==
  IF \A k \in 1..Len(name) : name[k] /= "." THEN ""
  ELSE IF name[Len(name)] = "." THEN ""
  ELSE ToLowerCase(name[Len(name)])

\* C21 as stated: every category sent to negotiation is one of the six and
\* follows from the lower-cased text after the last dot of the file name: an
\* extension of a table gets the table's category, and any other extension
\* or a name without a dot gets binary with an empty fileFormat.
C21_CategoryAndEmptyFormat ==
  \A input \in PreUploadInputs :
    LET ext == AfterLastDot(input.name) IN
    /\ input.fileCategory \in Categories
    /\ ext \in TableExts => input.fileCategory = TableCategory(ext)
    /\ ext \notin TableExts => (input.fileCategory = "binary" /\ input.fileFormat = "")

\* C21 amended: every category sent to negotiation is one of the six and
\* follows from the lower-cased text after the last dot of the file name, which
\* is sent as fileFormat: an extension of a table gets the table's category,
\* any other extension gets binary, and a name without a dot gets binary with
\* an empty fileFormat.
C21_CategoryFromExtension ==
  \A input \in PreUploadInputs :
    LET ext == AfterLastDot(input.name) IN
    /\ input.fileCategory \in Categories
    /\ input.fileFormat = ext
    /\ ext \in TableExts => input.fileCategory = TableCategory(ext)
    /\ ext \notin TableExts => input.fileCategory = "binary"
    /\ (\A k \in 1..Len(input.name) : input.name[k] /= ".")
         => (input.fileCategory = "binary" /\ input.fileFormat = "")

\* Negotiation was asked for a file whose extension, written in upper case,
\* stands in no table.
C21_Witness ==
  \E input \in PreUploadInputs :
    /\ input.name = <<"t", ".", "XYZ">>
    /\ input.fileCategory = "binary"
    /\ input.fileFormat = "xyz"

-----------------------------------------------------------------------------
(* The session: logins, logouts and mounts, specification SpecAuth.        *)

\* C22 as stated: in the state a successful login leaves, whatever logins,
\* visits of the login page and logouts came before it, the token that
\* getAuthToken hands to the authenticated calls is the token that login
\* returned.
C22_CallsCarryTokenOfLastLogin ==
  [][\A rememberMe \in BOOLEAN : \A data \in LoginData :
       LoginSucceeds(rememberMe, data)
         => getAuthToken(localToken', sessionToken') = Some(data.token)]_vars

\* C24: when the effects of a protected page's first render run while
\* neither store holds a token, the router goes to the login page, no
\* backend request is issued and no handler of the page is under way
\* afterwards that could issue one.
C24_MountWithoutTokenGoesToLogin ==
  [][(RunEffects /\ route \in ProtectedPages
        /\ getAuthToken(localToken, sessionToken) = None)
       => /\ route' = "login"
          /\ authCall' = authCall
          /\ handlerPage' = handlerPage]_vars

\* A protected page has rendered with both stores empty and its effects
\* are about to run.
C24_Witness ==
  /\ route = "agents"
  /\ ~effectsRun
  /\ localToken = None /\ sessionToken = None
  /\ handlerPage = None

\* What the three keys of the two stores hold.
Stores == <<localToken, localAdmin, sessionToken, sessionAdmin>>

\* C25: handleLogout leaves the three keys absent from both stores, so
\* getAuthToken returns null; and a getAuthToken that returned null returns
\* a token again only by a successful login.
C25_LogoutClearsBothStores ==
  [][/\ HandleLogout =>
          /\ Stores' = <<None, None, None, None>>
          /\ getAuthToken(localToken', sessionToken') = None
     /\ (/\ getAuthToken(localToken, sessionToken) = None
         /\ getAuthToken(localToken', sessionToken') /= None)
          => \E rememberMe \in BOOLEAN : \E data \in LoginData :
               LoginSucceeds(rememberMe, data)]_vars

\* Logged out, after logins had written both stores: the last call was
\* issued while both stores held a token, and both are empty now.
C25_Witness ==
  /\ Stores = <<None, None, None, None>>
  /\ route = "login"
  /\ IsSome(authCall)
  /\ IsSome(The(authCall).localToken) /\ IsSome(The(authCall).sessionToken)

\* The store a login wrote holds the three keys of the answer.
WroteKeys(token, admin, data) ==
  /\ token = Some(data.token)
  /\ admin = Some([id |-> NumberText(data.adminId), role |-> data.role])

\* C26: a successful login writes token, admin id and role to the
\* persistent store when rememberMe is set and to the session store
\* otherwise, and leaves the other store as it was; a login that fails or
\* that validation rejects writes to neither store and does not navigate.
C26_LoginWritesOneStore ==
  [][/\ \A rememberMe \in BOOLEAN : \A data \in LoginData :
          LoginSucceeds(rememberMe, data) =>
            IF rememberMe
            THEN /\ WroteKeys(localToken', localAdmin', data)
                 /\ UNCHANGED <<sessionToken, sessionAdmin>>
            ELSE /\ WroteKeys(sessionToken', sessionAdmin', data)
                 /\ UNCHANGED <<localToken, localAdmin>>
     /\ (LoginFails \/ LoginRejected) => UNCHANGED <<Stores, route>>]_vars

\* Two logins, one into each store: each store holds the keys of its own
\* login and the dashboard is shown.
C26_Witness ==
  /\ localToken = Some(<<"t1">>) /\ localAdmin = Some([id |-> <<"1">>, role |-> "super_admin"])
  /\ sessionToken = Some(<<"t2">>) /\ sessionAdmin = Some([id |-> <<"2">>, role |-> "admin"])
  /\ route = "dashboard"

-----------------------------------------------------------------------------
(* The template list and the versions of the selected template while loads *)
(* are in flight, specifications SpecBrowse and SpecBrowseLive.            *)

\* The most loadTemplates calls, and the most loadVersionsForFile calls,
\* awaiting their answer at a time.
MaxRequests == 2

\* A backend whose templates each have an archive file.
ArchivedTemplates ==
  << [id |-> 1, name |-> <<"a">>, description |-> <<>>, archiveFileId |-> 1],
     [id |-> 2, name |-> <<"b">>, description |-> <<"d">>, archiveFileId |-> 2] >>

\* A click on a template of the list while earlier loads may be in flight.
ClickWhileLoading ==
  /\ ~ModalOpen
  /\ Len(listRequests) < MaxRequests
  /\ Len(versionRequests) < MaxRequests
  /\ \E k \in 1..Len(templates) : ClickTemplateAt(k)

\* The two page buttons under the versions table, shown when there is more
\* than one page and the selected template has a file.
ChangeVersionsPage ==
  /\ IsSome(SelectedTemplate)
  /\ The(SelectedTemplate).archiveFileId /= 0
  /\ versionsPageInfo.totalPages > 1
  /\ Len(versionRequests) < MaxRequests
  /\ \E nextPage \in {versionsPageInfo.page - 1, versionsPageInfo.page + 1} :
       /\ nextPage = versionsPageInfo.page - 1 => ~(versionsPageInfo.page <= 1)
       /\ nextPage = versionsPageInfo.page + 1
            => ~(versionsPageInfo.page >= versionsPageInfo.totalPages)
       /\ versionsPageInfo' = [versionsPageInfo EXCEPT !.page = nextPage]
       /\ LoadVersionsForFile(The(SelectedTemplate).archiveFileId, nextPage)
  /\ UNCHANGED <<versionsFileId, versions, templates, selectedTemplateId, loading,
                 listRequests, formVars, modalVars, isUploading, uploadProgress,
                 message, invocations, otherVars>>

\* An answer of listSoftwareTemplates arrives; the versions requests issued
\* before are answered in time.
ListAnswer ==
  /\ Len(versionRequests) < MaxRequests
  /\ \E k \in 1..Len(listRequests) : LoadTemplatesSettlesWith(k, ArchivedTemplates)

VersionsAnswer == \E k \in 1..Len(versionRequests) : LoadVersionsSettles(k)

\* The list is loaded, its first template selected and the first page of
\* that template's versions shown; no modal is open.
InitBrowse ==
  /\ templates = ArchivedTemplates
  /\ selectedTemplateId = Some(ArchivedTemplates[1].id)
  /\ versionsFileId = Some(ArchivedTemplates[1].archiveFileId)
  /\ versions = FileVersionsData(ArchivedTemplates[1].archiveFileId, 1).list
  /\ versionsPageInfo = FileVersionsData(ArchivedTemplates[1].archiveFileId, 1).page
  /\ loading = FALSE /\ versionsLoading = FALSE
  /\ listRequests = <<>> /\ versionRequests = <<>>
  /\ isCreateModalOpen = FALSE /\ isEditModalOpen = FALSE /\ editingTemplate = None
  /\ formData = EmptyForm /\ selectedFile = None /\ uploadMode = "new"
  /\ isUploading = FALSE /\ uploadProgress = 0 /\ message = None
  /\ invocations = <<>>
  /\ ErrIdle /\ EditIdle /\ ResourcesIdle /\ AuthIdle

NextBrowse ==
  \/ ClickWhileLoading
  \/ ChangeVersionsPage
  \/ ListAnswer
  \/ VersionsAnswer

SpecBrowse == InitBrowse /\ [][NextBrowse]_vars

\* Every request is answered.
RequestsAreAnswered == WF_vars(ListAnswer) /\ WF_vars(VersionsAnswer)

SpecBrowseLive == SpecBrowse /\ RequestsAreAnswered

\* No answer of the backend is awaited.
Settled == listRequests = <<>> /\ versionRequests = <<>>

\* C23 as stated: the versions shown are versions of the selected
\* template's archive file; an answer of listFileVersions that arrives after
\* the user has selected another template does not replace them.  Stated of
\* the states in which no answer is awaited any more.
C23_VersionsOfSelectedTemplate ==
  Settled =>
    \A k \in 1..Len(versions) :
      /\ IsSome(SelectedTemplate)
      /\ versions[k].fileId = The(SelectedTemplate).archiveFileId


\* The selected id is null or the id of a template of the displayed list.
SelectedIsDisplayed ==
  IsSome(selectedTemplateId) =>
    \E k \in 1..Len(templates) : templates[k].id = The(selectedTemplateId)

\* `kept` if the list holds a template of that id, else the id of the
\* list's first template, else null.
KeptOrFirst(list, kept) ==
  IF IsSome(kept) /\ \E k \in 1..Len(list) : list[k].id = The(kept) THEN kept
  ELSE IF Len(list) > 0 THEN Some(list[1].id)
  ELSE None

UserInput == ClickWhileLoading \/ ChangeVersionsPage

C30_PageNumberIsPageShown ==
  (Settled /\ versions /= <<>>) =>
    versions = FileVersionPages(versions[1].fileId)[versionsPageInfo.page]

-----------------------------------------------------------------------------
(* Deleting an agent, a binding, a provider or a model behind a            *)
(* confirmation dialog, specification SpecDelete.                          *)

ResourceKinds == {"agent", "provider", "model"}
DeleteKinds == ResourceKinds \cup {"binding"}

\* The page of each kind of record, and the kind each tab of the LLM page
\* lists.
PageOf(kind) == IF kind \in {"agent", "binding"} THEN "agents" ELSE "llm"
TabKind(tab) ==
  CASE tab = "providers" -> "provider"
    [] tab = "models" -> "model"
    [] tab = "usage" -> "usage"

\* The binding of the first agent to the first model.
ServerBindings ==
  {[id |-> 1, agentId |-> 1, llmModelId |-> 1, priority |-> 0, isActive |-> TRUE]}

ServerRecords(kind) ==
  CASE kind = "agent" -> ServerAgents
    [] kind = "provider" -> ServerProviders
    [] kind = "model" -> ServerModels
    [] kind = "binding" -> ServerBindings

\* The records of `rows` with an id of `ids`, in the order of their ids.
RECURSIVE RowsOf(_, _)
RowsOf(rows, ids) ==
  IF ids = {} THEN <<>>
  ELSE LET least == CHOOSE i \in ids : \A j \in ids : i <= j
       IN  <<CHOOSE r \in rows : r.id = least>> \o RowsOf(rows, ids \ {least})

\* The answers of the list calls when the backend holds the ids `stored`.
ListData(kind, stored) == RowsOf(ServerRecords(kind), stored[kind])
BindingsData(agentId, stored) ==
  RowsOf(ServerBindings,
         {b.id : b \in {c \in ServerBindings : c.agentId = agentId /\ c.id \in stored.binding}})

AgentDeletedText == <<"agent deleted">>        \* Agent 已删除
BindingDeletedText == <<"binding deleted">>    \* 绑定已删除
ProviderDeletedText == <<"provider deleted">>  \* Provider 已删除
ModelDeletedText == <<"model deleted">>        \* Model 已删除
DeletedText(kind) ==
  CASE kind = "agent" -> AgentDeletedText
    [] kind = "binding" -> BindingDeletedText
    [] kind = "provider" -> ProviderDeletedText
    [] kind = "model" -> ModelDeletedText

\* selectedAgent, selectedProvider, selectedModel: the record of the list
\* with the selected id.
SelectedRecord(kind) ==
  IF IsSome(selectedIds[kind])
     /\ \E k \in 1..Len(records[kind]) : records[kind][k].id = The(selectedIds[kind])
  THEN Some(records[kind][CHOOSE k \in 1..Len(records[kind]) :
                            records[kind][k].id = The(selectedIds[kind])])
  ELSE None

\* nextSelected of loadAgents, loadProviders and loadModels.
NextSelected(list, selected) ==
  IF IsSome(selected) /\ \E k \in 1..Len(list) : list[k].id = The(selected)
  THEN selected
  ELSE IF list /= <<>> THEN Some(list[1].id) ELSE None

\* The calls of the backend: a list call remembers the selected id of the
\* render that made its loader, a delete call the one of the handler's
\* render.
ListCall(kind, selected) == [api |-> "list", kind |-> kind, id |-> 0, selected |-> selected]
BindingsCall(agentId) == [api |-> "bindings", kind |-> "binding", id |-> agentId, selected |-> None]
DeleteCall(kind, id, selected) == [api |-> "delete", kind |-> kind, id |-> id, selected |-> selected]

\* The calls the effects issue once selections `after` and tab `tab` are
\* rendered in place of `before`: the agent page reloads the agents when
\* selectedAgentId changes and loads the bindings of the agent selected; the
\* LLM page reloads the list of the active tab when either selection changes.
EffectCalls(page, before, after, tab) ==
  IF page = "agents"
  THEN IF after.agent = before.agent THEN <<>>
       ELSE <<ListCall("agent", after.agent)>>
            \o (IF IsSome(after.agent) THEN <<BindingsCall(The(after.agent))>> ELSE <<>>)
  ELSE IF after.provider = before.provider /\ after.model = before.model THEN <<>>
       ELSE <<ListCall(TabKind(tab),
                       IF tab = "usage" THEN None ELSE after[TabKind(tab)])>>

\* The bindings effect of the agent page clears the bindings when no agent
\* is selected any more.
BindingsAfter(page, before, after, list) ==
  IF page = "agents" /\ after.agent /= before.agent /\ after.agent = None
  THEN [list EXCEPT !.binding = <<>>]
  ELSE list

LoadsBindings(calls) == \E k \in 1..Len(calls) : calls[k].api = "bindings"

\* A click on a row of a list.
SelectRecord(kind, id) ==
  /\ kind \in ResourceKinds
  /\ route = PageOf(kind)
  /\ route = "llm" => TabKind(activeTab) = kind
  /\ \E k \in 1..Len(records[kind]) : records[kind][k].id = id
  /\ selectedIds[kind] /= Some(id)
  /\ Len(resourceCalls) < MaxRequests - 1
  /\ LET after == [selectedIds EXCEPT ![kind] = Some(id)]
         calls == EffectCalls(route, selectedIds, after, activeTab)
     IN  /\ selectedIds' = after
         /\ resourceCalls' = resourceCalls \o calls
         /\ bindingsLoading' = (bindingsLoading \/ LoadsBindings(calls))
  /\ UNCHANGED <<activeTab, records, backend, confirmed, pageVars, errVars, editVars,
                 authVars>>

\* A click on a tab of the LLM page; the effect loads the tab's list.
SwitchTab(tab) ==
  /\ route = "llm"
  /\ tab /= activeTab
  /\ Len(resourceCalls) < MaxRequests - 1
  /\ activeTab' = tab
  /\ resourceCalls' =
       Append(resourceCalls,
              ListCall(TabKind(tab), IF tab = "usage" THEN None ELSE selectedIds[TabKind(tab)]))
  /\ UNCHANGED <<records, selectedIds, bindingsLoading, backend, confirmed, pageVars,
                 errVars, editVars, authVars>>

\* The record a delete button passes to its handler: the selected agent,
\* provider or model, or the first binding.
DeleteButtonShown(kind) ==
  /\ route = PageOf(kind)
  /\ IF kind = "binding" THEN ~bindingsLoading /\ records.binding /= <<>>
     ELSE /\ IsSome(SelectedRecord(kind))
          /\ route = "llm" => TabKind(activeTab) = kind
RecordToDelete(kind) ==
  IF kind = "binding" THEN records.binding[1] ELSE The(SelectedRecord(kind))

\* A handler that does not wait for the dialog's answer.
CallsUnconfirmed(calls, call, answer) == Append(calls, call)

\* The calls awaited once the dialog is answered: if (!confirmed) return.
CallsConfirmed(calls, call, answer) ==
  IF ~answer THEN calls ELSE Append(calls, call)

\* submitDeleteAgent, submitDeleteCurrentBinding, submitDeleteProvider and
\* submitDeleteModel up to their await: the message is cleared, the dialog
\* is answered, and the DELETE request is issued if the answer is yes.
SubmitDelete(kind, answer) ==
  /\ DeleteButtonShown(kind)
  /\ answer => Len(resourceCalls) < MaxRequests - 1
  /\ banner' = None
  /\ confirmed' = Some([kind |-> kind, confirmed |-> answer])
  /\ resourceCalls' =
       CallsConfirmed(resourceCalls,
                      DeleteCall(kind, RecordToDelete(kind).id,
                                 IF kind = "binding"
                                 THEN IF IsSome(SelectedRecord("agent"))
                                      THEN selectedIds.agent ELSE None
                                 ELSE selectedIds[kind]),
                      answer)
  /\ UNCHANGED <<activeTab, records, selectedIds, bindingsLoading, backend, apiCall,
                 pageVars, editVars, authVars>>

\* The answers the backend can give to a call.
AnswersTo(call) ==
  FailureResponses \cup
    CASE call.api = "delete" ->
           IF call.id \in backend[call.kind] THEN {OkResponse(<<>>)} ELSE {}
      [] call.api = "bindings" -> {OkResponse(BindingsData(call.id, backend))}
      [] call.api = "list" ->
           {OkResponse(IF call.kind = "usage" THEN <<>> ELSE ListData(call.kind, backend))}

\* The rest of a delete handler: the error message, or the success message,
\* the selection cleared and the list loaded again.
DeleteAnswered(k, result) ==
  LET call == resourceCalls[k]
      rest == RemoveAt(resourceCalls, k)
  IN  IF ~result.ok
      THEN /\ banner' = Some(result.message)
           /\ resourceCalls' = rest
           /\ UNCHANGED <<records, selectedIds, bindingsLoading, backend>>
      ELSE /\ banner' = Some(DeletedText(call.kind))
           /\ backend' = [backend EXCEPT ![call.kind] = @ \ {call.id}]
           /\ IF call.kind = "binding"
              THEN /\ resourceCalls' =
                        rest \o (IF IsSome(call.selected)
                                 THEN <<BindingsCall(The(call.selected))>> ELSE <<>>)
                   /\ bindingsLoading' = (bindingsLoading \/ IsSome(call.selected))
                   /\ UNCHANGED <<records, selectedIds>>
              ELSE LET after == [selectedIds EXCEPT ![call.kind] = None] IN
                   /\ selectedIds' = after
                   /\ records' =
                        IF call.kind = "agent" THEN [records EXCEPT !.binding = <<>>]
                        ELSE records
                   /\ resourceCalls' =
                        rest \o <<ListCall(call.kind, call.selected)>>
                             \o EffectCalls(route, selectedIds, after, activeTab)
                   /\ UNCHANGED bindingsLoading

\* The rest of loadAgents, loadProviders, loadModels and loadUsageLogs.
ListAnswered(k, result) ==
  LET call == resourceCalls[k]
      rest == RemoveAt(resourceCalls, k)
  IN  IF ~result.ok
      THEN /\ banner' = Some(result.message)
           /\ resourceCalls' = rest
           /\ UNCHANGED <<records, selectedIds, bindingsLoading, backend>>
      ELSE IF call.kind = "usage"
      THEN /\ resourceCalls' = rest
           /\ UNCHANGED <<records, selectedIds, bindingsLoading, backend, banner>>
      ELSE LET after == [selectedIds EXCEPT
                           ![call.kind] = NextSelected(result.data, call.selected)]
               calls == EffectCalls(route, selectedIds, after, activeTab)
           IN  /\ records' = BindingsAfter(route, selectedIds, after,
                                           [records EXCEPT ![call.kind] = result.data])
               /\ selectedIds' = after
               /\ resourceCalls' = rest \o calls
               /\ bindingsLoading' = (bindingsLoading \/ LoadsBindings(calls))
               /\ UNCHANGED <<backend, banner>>

\* The rest of loadBindings.
BindingsAnswered(k, result) ==
  /\ bindingsLoading' = FALSE
  /\ resourceCalls' = RemoveAt(resourceCalls, k)
  /\ IF ~result.ok
     THEN /\ banner' = Some(result.message)
          /\ UNCHANGED records
     ELSE /\ records' = [records EXCEPT !.binding = result.data]
          /\ UNCHANGED banner
  /\ UNCHANGED <<selectedIds, backend>>

\* An awaited call is answered.
ResourceCallSettles(k) ==
  /\ k \in 1..Len(resourceCalls)
  /\ \E response \in AnswersTo(resourceCalls[k]) :
       LET result == ApiResult(route, response, <<>>) IN
       CASE resourceCalls[k].api = "delete" -> DeleteAnswered(k, result)
         [] resourceCalls[k].api = "list" -> ListAnswered(k, result)
         [] resourceCalls[k].api = "bindings" -> BindingsAnswered(k, result)
  /\ Len(resourceCalls') <= MaxRequests
  /\ UNCHANGED <<activeTab, confirmed, apiCall, pageVars, editVars, authVars>>

\* The agent page with its agents loaded, the first selected and its
\* bindings shown, or the LLM page with its providers loaded and the first
\* selected.
InitDelete ==
  /\ PageAtRest /\ ErrIdle /\ EditIdle
  /\ localToken = None /\ sessionToken = Some(<<"t1">>)
  /\ localAdmin = None /\ sessionAdmin = Some([id |-> <<"1">>, role |-> "super_admin"])
  /\ route \in {"agents", "llm"}
  /\ effectsRun = TRUE /\ handlerPage = None /\ authCall = None
  /\ activeTab = "providers"
  /\ backend = StoredIds
  /\ records =
       IF route = "agents"
       THEN [NoRecords EXCEPT !.agent = ListData("agent", StoredIds),
                              !.binding = BindingsData(1, StoredIds)]
       ELSE [NoRecords EXCEPT !.provider = ListData("provider", StoredIds)]
  /\ selectedIds =
       IF route = "agents" THEN [NothingSelected EXCEPT !.agent = Some(1)]
       ELSE [NothingSelected EXCEPT !.provider = Some(1)]
  /\ bindingsLoading = FALSE
  /\ resourceCalls = <<>>
  /\ confirmed = None

NextDelete ==
  \/ \E kind \in ResourceKinds : \E id \in StoredIds[kind] : SelectRecord(kind, id)
  \/ \E tab \in {"providers", "models", "usage"} : SwitchTab(tab)
  \/ \E kind \in DeleteKinds : \E answer \in BOOLEAN : SubmitDelete(kind, answer)
  \/ \E k \in 1..Len(resourceCalls) : ResourceCallSettles(k)

SpecDelete == InitDelete /\ [][NextDelete]_vars

\* C29: when the user declines the confirmation dialog of a delete handler
\* (agent, binding, provider or model), no DELETE request is issued and the
\* lists, the selections and the bindings stay as they were.
C29_DeclinedDeleteChangesNothing ==
  [][\A kind \in DeleteKinds :
       SubmitDelete(kind, FALSE) =>
         /\ \A k \in 1..Len(resourceCalls') :
              resourceCalls'[k].api = "delete"
                => k <= Len(resourceCalls) /\ resourceCalls'[k] = resourceCalls[k]
         /\ Len(resourceCalls') = Len(resourceCalls)
         /\ records' = records
         /\ selectedIds' = selectedIds
         /\ backend' = backend]_vars

\* The dialog of the binding's delete button was declined: the agent, its
\* binding and the backend's records are all still there, no call is awaited
\* and the message is cleared.
C29_Witness ==
  /\ confirmed = Some([kind |-> "binding", confirmed |-> FALSE])
  /\ route = "agents"
  /\ records.binding = BindingsData(1, StoredIds) /\ records.binding /= <<>>
  /\ selectedIds.agent = Some(1)
  /\ backend = StoredIds
  /\ resourceCalls = <<>>
  /\ banner = None

====
